---- MODULE Spec2Model ----
(***************************************************************************)
(* A model of browserforge: the Bayesian network sampler                   *)
(* (bayesian_network.py), the header generator (headers/generator.py,      *)
(* headers/utils.py) and the fingerprint generator                         *)
(* (fingerprints/generator.py).                                            *)
(*                                                                         *)
(* Representation.  A Python str is a sequence of chunks (TLA+ strings): a *)
(* header name is spelled character by character, a data value token by    *)
(* token, so that split, startswith, title and substring tests are         *)
(* computed on the text.  A Python dict is a sequence of records           *)
(* [k |-> key, v |-> value] in insertion order.  None is the value None.   *)
(* Probabilities are integers in units of 1/AnchorScale and the uniform    *)
(* draw random.random() is an integer anchor in 0..AnchorScale-1.          *)
(***************************************************************************)
EXTENDS Integers, Sequences, FiniteSets, TLC

\* ------------------------------------------------------------------ bounds
\* granularity of random.random(): anchors are 0 .. AnchorScale-1
AnchorScale == 4
\* depth of nested _get_headers calls the model follows before it stops
MaxDepth == 4
\* number of passes of the sampling loop of FingerprintGenerator.generate
\* the model follows before it stops
MaxAttempts == 3

\* ------------------------------------------------------- Python primitives
None == <<"None">>

S(x) == <<x>>

SeqToSet(s) == {s[i] : i \in 1..Len(s)}

RECURSIVE FilterSeq(_, _)
\* [x for x in s if x \in keep]
FilterSeq(s, keep) ==
    IF s = <<>> THEN <<>>
    ELSE IF Head(s) \in keep THEN <<Head(s)>> \o FilterSeq(Tail(s), keep)
         ELSE FilterSeq(Tail(s), keep)

\* dict: keys, membership, lookup, update, delete (insertion order kept)
Keys(d) == [i \in 1..Len(d) |-> d[i].k]

KeySet(d) == {d[i].k : i \in 1..Len(d)}

Has(d, key) == \E i \in 1..Len(d) : d[i].k = key

Get(d, key) == d[CHOOSE i \in 1..Len(d) : d[i].k = key].v

GetOr(d, key, default) == IF Has(d, key) THEN Get(d, key) ELSE default

Put(d, key, val) ==
    IF Has(d, key)
    THEN [i \in 1..Len(d) |-> IF d[i].k = key THEN [k |-> key, v |-> val] ELSE d[i]]
    ELSE Append(d, [k |-> key, v |-> val])

RECURSIVE Del(_, _)
Del(d, key) ==
    IF d = <<>> THEN <<>>
    ELSE IF Head(d).k = key THEN Tail(d)
         ELSE <<Head(d)>> \o Del(Tail(d), key)

RECURSIVE Update(_, _)
\* {**d, **e}
Update(d, e) == IF e = <<>> THEN d ELSE Update(Put(d, Head(e).k, Head(e).v), Tail(e))

\* ------------------------------------------------ conditional probability
\* A conditionalProbabilities dict: 'deeper' maps a parent value to a
\* subtree, 'skip' is zero or one subtree, dist holds the value -> probability
\* entries of a leaf.
Leaf(dist) == [deeper |-> <<>>, skip |-> <<>>, dist |-> dist]

Deeper(branches) == [deeper |-> branches, skip |-> <<>>, dist |-> <<>>]

DeeperSkip(branches, skipTree) == [deeper |-> branches, skip |-> <<skipTree>>, dist |-> <<>>]

EmptyTree == Leaf(<<>>)

KV(key, val) == [k |-> key, v |-> val]

Node(name, parentNames, possibleValues, cpt) ==
    [name |-> name, parentNames |-> parentNames,
     possibleValues |-> possibleValues, conditionalProbabilities |-> cpt]

\* ------------------------------------------------------------- str methods
UpperLetters == <<"A", "B", "C", "D", "E", "F", "G", "H", "I", "J", "K", "L", "M", "N", "O", "P", "Q", "R", "S", "T", "U", "V", "W", "X", "Y", "Z">>

LowerLetters == <<"a", "b", "c", "d", "e", "f", "g", "h", "i", "j", "k", "l", "m", "n", "o", "p", "q", "r", "s", "t", "u", "v", "w", "x", "y", "z">>

IsUpper(c) == \E i \in 1..26 : UpperLetters[i] = c

IsLower(c) == \E i \in 1..26 : LowerLetters[i] = c

IsCased(c) == IsUpper(c) \/ IsLower(c)

LowerChar(c) == IF IsUpper(c) THEN LowerLetters[CHOOSE i \in 1..26 : UpperLetters[i] = c] ELSE c

UpperChar(c) == IF IsLower(c) THEN UpperLetters[CHOOSE i \in 1..26 : LowerLetters[i] = c] ELSE c

\* str.lower, str.upper
lower(str) == [i \in 1..Len(str) |-> LowerChar(str[i])]

upper(str) == [i \in 1..Len(str) |-> UpperChar(str[i])]

\* str.title: a cased character is upper-cased after an uncased one (or at the
\* start) and lower-cased after a cased one
title(str) ==
    [i \in 1..Len(str) |->
        IF i > 1 /\ IsCased(str[i - 1]) THEN LowerChar(str[i]) ELSE UpperChar(str[i])]

\* str.startswith
startswith(str, prefix) ==
    /\ Len(str) >= Len(prefix)
    /\ SubSeq(str, 1, Len(prefix)) = prefix

RECURSIVE split_from(_, _, _)
\* str.split(sep): the pieces of str between the chunks equal to sep
split_from(str, sep, piece) ==
    IF str = <<>> THEN <<piece>>
    ELSE IF Head(str) = sep THEN <<piece>> \o split_from(Tail(str), sep, <<>>)
         ELSE split_from(Tail(str), sep, Append(piece, Head(str)))

split(str, sep) == split_from(str, sep, <<>>)

Digits == <<"0", "1", "2", "3", "4", "5", "6", "7", "8", "9">>

DigitValue(c) == (CHOOSE i \in 1..10 : Digits[i] = c) - 1

RECURSIVE int_from(_, _)
int_from(str, acc) ==
    IF str = <<>> THEN acc ELSE int_from(Tail(str), 10 * acc + DigitValue(Head(str)))

\* int(str) of a decimal numeral
int(str) == int_from(str, 0)

\* header names of the Sec-Fetch attribute sets
SecFetchMode1 == <<"S", "e", "c", "-", "F", "e", "t", "c", "h", "-", "M", "o", "d", "e">>

SecFetchDest1 == <<"S", "e", "c", "-", "F", "e", "t", "c", "h", "-", "D", "e", "s", "t">>

SecFetchSite1 == <<"S", "e", "c", "-", "F", "e", "t", "c", "h", "-", "S", "i", "t", "e">>

SecFetchUser1 == <<"S", "e", "c", "-", "F", "e", "t", "c", "h", "-", "U", "s", "e", "r">>

SecFetchMode2 == <<"s", "e", "c", "-", "f", "e", "t", "c", "h", "-", "m", "o", "d", "e">>

SecFetchDest2 == <<"s", "e", "c", "-", "f", "e", "t", "c", "h", "-", "d", "e", "s", "t">>

SecFetchSite2 == <<"s", "e", "c", "-", "f", "e", "t", "c", "h", "-", "s", "i", "t", "e">>

SecFetchUser2 == <<"s", "e", "c", "-", "f", "e", "t", "c", "h", "-", "u", "s", "e", "r">>

\* --------------------------------------------------------------- the data
\* Node names of the synthetic aggregate nodes and of the headers.
BROWSER_HTTP == <<"*", "BROWSER_HTTP">>

OPERATING_SYSTEM == <<"*", "OPERATING_SYSTEM">>

DEVICE == <<"*", "DEVICE">>

BROWSER == <<"*", "BROWSER">>

UserAgent1 == <<"U", "s", "e", "r", "-", "A", "g", "e", "n", "t">>

UserAgent2 == <<"u", "s", "e", "r", "-", "a", "g", "e", "n", "t">>

AcceptLanguage1 == <<"A", "c", "c", "e", "p", "t", "-", "L", "a", "n", "g", "u", "a", "g", "e">>

AcceptLanguage2 == <<"a", "c", "c", "e", "p", "t", "-", "l", "a", "n", "g", "u", "a", "g", "e">>

Connection1 == <<"C", "o", "n", "n", "e", "c", "t", "i", "o", "n">>

Connection2 == <<"c", "o", "n", "n", "e", "c", "t", "i", "o", "n">>

\* a header name that no header-order list holds
XRequestedWith == <<"X", "-", "R", "e", "q", "u", "e", "s", "t", "e", "d", "-", "W", "i", "t", "h">>

MISSING_VALUE_DATASET_TOKEN == <<"*", "MISSING_VALUE*">>

\* *BROWSER_HTTP values  name/version|httpVersion
chrome100 == <<"chrome", "/", "1", "0", "0", ".", "0">>

firefox95 == <<"firefox", "/", "9", "5", ".", "0">>

chrome100h2 == chrome100 \o <<"|", "2">>

chrome100h1 == chrome100 \o <<"|", "1">>

firefox95h2 == firefox95 \o <<"|", "2">>

windows == S("windows")

linux == S("linux")

macos == S("macos")

desktop == S("desktop")

mobile == S("mobile")

\* User-Agent strings; the browser aliases are chunks of their own
UA_cw_a == <<"Mozilla/5.0 (Windows NT 10.0) ", "Chrome", "/100.0 ", "Safari", "/537.36">>

UA_cw_b == <<"Mozilla/5.0 (Windows NT 6.1) ", "Chrome", "/100.0 ", "Safari", "/537.36">>

UA_cl == <<"Mozilla/5.0 (X11; Linux) ", "Chrome", "/100.0 ", "Safari", "/537.36">>

UA_cl_m == <<"Mozilla/5.0 (Linux; Android) ", "Chrome", "/100.0 Mobile ", "Safari", "/537.36">>

UA_fl == <<"Mozilla/5.0 (X11; Linux) Gecko ", "Firefox", "/95.0">>

UA_unknown == <<"curl/8.0">>

close == S("close")

keep_alive == S("keep-alive")

\* input-network.zip: *BROWSER_HTTP, *OPERATING_SYSTEM, *DEVICE
BrowserHttpNode ==
    Node(BROWSER_HTTP, <<>>, <<chrome100h2, chrome100h1, firefox95h2>>,
         Leaf(<<KV(chrome100h2, 2), KV(chrome100h1, 1), KV(firefox95h2, 1)>>))

OperatingSystemNode ==
    Node(OPERATING_SYSTEM, <<BROWSER_HTTP>>, <<windows, linux>>,
         Deeper(<<KV(chrome100h2, Leaf(<<KV(windows, 2), KV(linux, 2)>>)),
                  KV(chrome100h1, Leaf(<<KV(windows, 4)>>)),
                  KV(firefox95h2, Leaf(<<KV(linux, 4)>>))>>))

DeviceNode ==
    Node(DEVICE, <<OPERATING_SYSTEM>>, <<desktop, mobile>>,
         Deeper(<<KV(windows, Leaf(<<KV(desktop, 4)>>)),
                  KV(linux, Leaf(<<KV(desktop, 2), KV(mobile, 2)>>))>>))

InputNetwork == <<BrowserHttpNode, OperatingSystemNode, DeviceNode>>

\* header-network.zip: the input nodes, *BROWSER and the header nodes.  A header
\* that a browser does not send has the value *MISSING_VALUE* (skip branches).
Skip(t) == DeeperSkip(<<>>, t)

Missing == Leaf(<<KV(MISSING_VALUE_DATASET_TOKEN, 4)>>)

BrowserNode ==
    Node(BROWSER, <<BROWSER_HTTP>>, <<chrome100, firefox95>>,
         Deeper(<<KV(chrome100h2, Leaf(<<KV(chrome100, 4)>>)),
                  KV(chrome100h1, Leaf(<<KV(chrome100, 4)>>)),
                  KV(firefox95h2, Leaf(<<KV(firefox95, 4)>>))>>))

UAParents == <<BROWSER_HTTP, BROWSER, OPERATING_SYSTEM, DEVICE>>

UserAgent1Node ==
    Node(UserAgent1, UAParents, <<UA_cw_a, UA_cw_b, MISSING_VALUE_DATASET_TOKEN>>,
         DeeperSkip(
           <<KV(chrome100h1, Deeper(<<KV(chrome100, Deeper(<<KV(windows, Deeper(
                <<KV(desktop, Leaf(<<KV(UA_cw_a, 2), KV(UA_cw_b, 2)>>))>>))>>))>>))>>,
           Skip(Skip(Skip(Missing)))))

UserAgent2Node ==
    Node(UserAgent2, UAParents,
         <<UA_cw_a, UA_cw_b, UA_cl, UA_cl_m, UA_fl, MISSING_VALUE_DATASET_TOKEN>>,
         DeeperSkip(
           <<KV(chrome100h2, Deeper(<<KV(chrome100, Deeper(
                <<KV(windows, Deeper(
                     <<KV(desktop, Leaf(<<KV(UA_cw_a, 2), KV(UA_cw_b, 2)>>))>>)),
                  KV(linux, Deeper(
                     <<KV(desktop, Leaf(<<KV(UA_cl, 4)>>)),
                       KV(mobile, Leaf(<<KV(UA_cl_m, 4)>>))>>))>>))>>)),
             KV(firefox95h2, Deeper(<<KV(firefox95, Deeper(
                <<KV(linux, Deeper(
                     <<KV(desktop, Leaf(<<KV(UA_fl, 4)>>)),
                       KV(mobile, Leaf(<<KV(UA_fl, 4)>>))>>))>>))>>))>>,
           Skip(Skip(Skip(Missing)))))

ConnectionNode ==
    Node(Connection1, <<BROWSER_HTTP>>, <<close, keep_alive, MISSING_VALUE_DATASET_TOKEN>>,
         DeeperSkip(<<KV(chrome100h1, Leaf(<<KV(close, 2), KV(keep_alive, 2)>>))>>,
                    Missing))

HeaderNetwork ==
    <<BrowserHttpNode, OperatingSystemNode, DeviceNode, BrowserNode,
      UserAgent1Node, UserAgent2Node, ConnectionNode>>

\* fingerprint-network.zip: userAgent and screen (a *STRINGIFIED* JSON object)
userAgent == S("userAgent")

screen == S("screen")

STRINGIFIED == "*STRINGIFIED*"

scr800 == <<STRINGIFIED, "{", "\"width\"", ":", "8", "0", "0", ",", "\"height\"", ":", "6", "0", "0", "}">>

scr1920 == <<STRINGIFIED, "{", "\"width\"", ":", "1", "9", "2", "0", ",", "\"height\"", ":", "1", "0", "8", "0", "}">>

UserAgentNode ==
    Node(userAgent, <<>>, <<UA_cw_a, UA_cw_b, UA_cl, UA_cl_m>>,
         Leaf(<<KV(UA_cw_a, 1), KV(UA_cw_b, 1), KV(UA_cl, 1), KV(UA_cl_m, 1)>>))

ScreenNode ==
    Node(screen, <<userAgent>>, <<scr800, scr1920>>,
         Deeper(<<KV(UA_cw_a, Leaf(<<KV(scr800, 4)>>)),
                  KV(UA_cw_b, Leaf(<<KV(scr800, 2), KV(scr1920, 2)>>)),
                  KV(UA_cl, Leaf(<<KV(scr1920, 4)>>)),
                  KV(UA_cl_m, Leaf(<<KV(scr800, 4)>>))>>))

FingerprintNetwork == <<UserAgentNode, ScreenNode>>

\* BayesianNetwork.__init__: nodes_in_sampling_order of the three networks
nodes_in_sampling_order(network) ==
    CASE network = "input" -> InputNetwork
      [] network = "header" -> HeaderNetwork
      [] network = "fingerprint" -> FingerprintNetwork

nodes_by_name(network, name) ==
    LET nodes == nodes_in_sampling_order(network)
    IN nodes[CHOOSE i \in 1..Len(nodes) : nodes[i].name = name]

\* ------------------------------------------------------------ BayesianNode
RECURSIVE get_probabilities_loop(_, _, _)
\* the for loop of get_probabilities_given_known_values
get_probabilities_loop(probabilities, parent_names, parent_values) ==
    IF parent_names = <<>> THEN probabilities
    ELSE LET parent_value == GetOr(parent_values, Head(parent_names), None)
             next == IF Has(probabilities.deeper, parent_value)
                     THEN Get(probabilities.deeper, parent_value)
                     ELSE IF probabilities.skip # <<>> THEN probabilities.skip[1]
                          ELSE EmptyTree
         IN get_probabilities_loop(next, Tail(parent_names), parent_values)

get_probabilities_given_known_values(node, parent_values) ==
    get_probabilities_loop(node.conditionalProbabilities, node.parentNames,
                           parent_values).dist

IndexError == <<"IndexError">>

RECURSIVE cumulative_walk(_, _, _, _)
\* the for loop of sample_random_value_from_possibilities: the position of the
\* first value whose cumulative probability exceeds the anchor, 0 if none
cumulative_walk(possible_values, probabilities, anchor, cumulative_probability) ==
    IF possible_values = <<>> THEN 0
    ELSE LET c == cumulative_probability + Get(probabilities, Head(possible_values))
         IN IF c > anchor THEN 1
            ELSE LET r == cumulative_walk(Tail(possible_values), probabilities, anchor, c)
                 IN IF r = 0 THEN 0 ELSE r + 1

\* faulty variant: the last value is the default
sample_random_value_defaulting_to_last(possible_values, probabilities, anchor) ==
    LET i == cumulative_walk(possible_values, probabilities, anchor, 0)
    IN IF i > 0 THEN possible_values[i]
       ELSE IF possible_values # <<>> THEN possible_values[Len(possible_values)]
            ELSE IndexError

sample_random_value_from_possibilities(possible_values, probabilities, anchor) ==
    LET i == cumulative_walk(possible_values, probabilities, anchor, 0)
    IN IF i > 0 THEN possible_values[i]
       ELSE IF possible_values # <<>> THEN possible_values[1]
            ELSE IndexError

sample(node, parent_values, anchor) ==
    LET probabilities == get_probabilities_given_known_values(node, parent_values)
    IN sample_random_value_from_possibilities(Keys(probabilities), probabilities, anchor)

\* faulty variant: the allowed values are not consulted
sample_ignoring_allowed(node, parent_values, allowed, banned_values, anchor) ==
    LET probabilities == get_probabilities_given_known_values(node, parent_values)
        valid_values == FilterSeq(Keys(probabilities), KeySet(probabilities) \ SeqToSet(banned_values))
    IN IF valid_values # <<>>
       THEN sample_random_value_from_possibilities(valid_values, probabilities, anchor)
       ELSE None

\* faulty variant: a frame gives up after its first value failed
sample_giving_up_after_ban(node, parent_values, allowed, banned_values, anchor) ==
    LET probabilities == get_probabilities_given_known_values(node, parent_values)
        valid_values == FilterSeq(allowed, KeySet(probabilities))
    IN IF valid_values # <<>> /\ banned_values = <<>>
       THEN sample_random_value_from_possibilities(valid_values, probabilities, anchor)
       ELSE None

\* faulty variant: the candidates are taken in the order of the distribution
sample_in_distribution_order(node, parent_values, allowed, banned_values, anchor) ==
    LET probabilities == get_probabilities_given_known_values(node, parent_values)
        valid_values == FilterSeq(Keys(probabilities), SeqToSet(allowed) \ SeqToSet(banned_values))
    IN IF valid_values # <<>>
       THEN sample_random_value_from_possibilities(valid_values, probabilities, anchor)
       ELSE None

\* faulty variant: the banned values are not consulted
sample_ignoring_banned(node, parent_values, allowed, banned_values, anchor) ==
    LET probabilities == get_probabilities_given_known_values(node, parent_values)
        valid_values == FilterSeq(allowed, KeySet(probabilities))
    IN IF valid_values # <<>>
       THEN sample_random_value_from_possibilities(valid_values, probabilities, anchor)
       ELSE None

sample_according_to_restrictions(node, parent_values, allowed, banned_values, anchor) ==
    LET probabilities == get_probabilities_given_known_values(node, parent_values)
        valid_values == FilterSeq(allowed, KeySet(probabilities) \ SeqToSet(banned_values))
    IN IF valid_values # <<>>
       THEN sample_random_value_from_possibilities(valid_values, probabilities, anchor)
       ELSE None

\* ------------------------------------------------------------------- state
VARIABLES
    network,              \* the network the running search samples
    value_possibilities,  \* the allowed-values map of the running search
    sample_so_far,        \* the assignment, shared by all frames
    frames,               \* active frames, innermost last: depth, banned_values
    s_pc,                 \* "idle", "loop", "returned_none", "done"
    next_sample,          \* the value the search returned: an assignment or None
    hash_seed,            \* the process's str hash seed: decides set iteration order
    self_options,         \* HeaderGenerator.options, set by __init__
    call_options,         \* the options dict generate() builds from its arguments
    options,              \* **options of the running _get_headers call
    user_agent,           \* user_agent of the running call (<<>>: None)
    request_dependent_headers,
    retries,              \* enclosing _get_headers calls waiting in the HTTP/1 retry
    call_depth,           \* nesting depth of the running _get_headers call
    generated_sample,     \* the sample generate_sample is filling
    hg_pc,                \* "idle", "input_sample", "generate_sample", "done"
    outcome,              \* what generate() returned or raised
    self_screen,          \* FingerprintGenerator.screen, set by __init__
    self_strict,          \* FingerprintGenerator.strict, set by __init__
    fg_screen,            \* screen of the running FingerprintGenerator.generate
    fg_strict,            \* strict of the running FingerprintGenerator.generate
    filtered_values,      \* filtered_values of the running generate
    fg_user_agent,        \* the User-Agent generate extracted from the headers
    attempts,             \* passes of the while loop of generate so far
    fg_pc,                \* "idle", "headers", "sampling", "done"
    fg_outcome,           \* what FingerprintGenerator.generate returned or raised
    fn_pc,                \* the function a direct call applies, "idle" if none
    fn_arg,               \* the argument of the direct call
    fn_result             \* what the direct call returned

search_vars == <<network, value_possibilities, sample_so_far, frames, s_pc, next_sample>>

hg_vars == <<self_options, call_options, options, user_agent, request_dependent_headers,
             retries, call_depth, generated_sample, hg_pc, outcome>>

fg_vars == <<self_screen, self_strict, fg_screen, fg_strict, filtered_values, fg_user_agent, attempts,
             fg_pc, fg_outcome>>

fn_vars == <<fn_pc, fn_arg, fn_result>>

caller_vars == <<hash_seed, hg_vars, fg_vars, fn_vars>>

vars == <<search_vars, caller_vars>>

\* ------------------------------------------------------ constraint closure
\* faulty variant: the first array is returned whole
array_intersection_keeping_first(a, b) == a

array_intersection(a, b) == FilterSeq(a, SeqToSet(b))

RECURSIVE SetToSeq(_)
SetToSeq(set) ==
    IF set = {} THEN <<>>
    ELSE LET x == CHOOSE x \in set : TRUE IN <<x>> \o SetToSeq(set \ {x})

Reverse(seq) == [i \in 1..Len(seq) |-> seq[Len(seq) + 1 - i]]

\* tuple(set): the iteration order of a set of str depends on the hash seed
tuple_of_set(set) == IF hash_seed = 0 THEN SetToSeq(set) ELSE Reverse(SetToSeq(set))

Min(x, y) == IF x < y THEN x ELSE y

\* faulty variant: the values of the paths found before are kept, no union
array_zip_keeping_first(a, b) == [i \in 1..Min(Len(a), Len(b)) |-> a[i]]

array_zip(a, b) ==
    [i \in 1..Min(Len(a), Len(b)) |-> tuple_of_set(SeqToSet(a[i]) \cup SeqToSet(b[i]))]

\* an entry of an undeepered tree: a leaf value, or a parent value with its subtree
Entry(key, is_leaf, sub) == [k |-> key, is_leaf |-> is_leaf, sub |-> sub]

RECURSIVE undeeper(_)
RECURSIVE undeeper_items(_)
undeeper_items(branches) ==
    IF branches = <<>> THEN <<>>
    ELSE <<Entry(Head(branches).k, FALSE, undeeper(Head(branches).v))>>
         \o undeeper_items(Tail(branches))

undeeper(obj) ==
    undeeper_items(obj.deeper) \o [i \in 1..Len(obj.dist) |-> Entry(obj.dist[i].k, TRUE, <<>>)]

RECURSIVE recurse(_, _, _, _)
\* recurse of filter_by_last_level_keys; out is threaded through the walk
recurse(t, vk, acc, out) ==
    IF t = <<>> THEN out
    ELSE LET e == Head(t)
             singles == [i \in 1..Len(acc) |-> <<acc[i]>>]
             out1 == IF e.is_leaf
                     THEN IF e.k \in SeqToSet(vk)
                          THEN IF Len(out) = 0 THEN singles ELSE array_zip(out, singles)
                          ELSE out
                     ELSE recurse(e.sub, vk, Append(acc, e.k), out)
         IN recurse(Tail(t), vk, acc, out1)

filter_by_last_level_keys(tree, valid_keys) == recurse(tree, valid_keys, <<>>, <<>>)

\* dict(zip(names, values))
dict_zip(names, values) == [i \in 1..Min(Len(names), Len(values)) |-> KV(names[i], values[i])]

TooRestrictive == [error |-> TRUE, value |-> <<>>]

Ok(x) == [error |-> FALSE, value |-> x]

RECURSIVE closure_sets(_, _)
\* the first loop of get_possible_values: one dict per constraint
closure_sets(nw, possible_values) ==
    IF possible_values = <<>> THEN Ok(<<>>)
    ELSE LET key == Head(possible_values).k
             value == Head(possible_values).v
             node == nodes_by_name(nw, key)
             tree == undeeper(node.conditionalProbabilities)
             zipped_values == filter_by_last_level_keys(tree, value)
             rest == closure_sets(nw, Tail(possible_values))
         IN IF Len(value) = 0 THEN TooRestrictive
            ELSE IF rest.error THEN TooRestrictive
            ELSE Ok(<<Put(dict_zip(node.parentNames, zipped_values), key, value)>> \o rest.value)

RECURSIVE intersect_into(_, _)
\* the inner loop of the second loop: merge one dict into result
intersect_into(result, set_dict) ==
    IF set_dict = <<>> THEN Ok(result)
    ELSE LET key == Head(set_dict).k
         IN IF Has(result, key)
            THEN LET intersected_values == array_intersection(Head(set_dict).v, Get(result, key))
                 IN IF intersected_values = <<>> THEN TooRestrictive
                    ELSE intersect_into(Put(result, key, intersected_values), Tail(set_dict))
            ELSE intersect_into(Put(result, key, Head(set_dict).v), Tail(set_dict))

RECURSIVE intersect_all(_, _)
intersect_all(result, sets) ==
    IF sets = <<>> THEN Ok(result)
    ELSE LET r == intersect_into(result, Head(sets))
         IN IF r.error THEN TooRestrictive ELSE intersect_all(r.value, Tail(sets))

get_possible_values(nw, possible_values) ==
    LET sets == closure_sets(nw, possible_values)
    IN IF sets.error THEN TooRestrictive ELSE intersect_all(<<>>, sets.value)

\* -------------------------------------------------------- headers/utils.py
\* headers.get('User-Agent') or headers.get('user-agent')
get_user_agent(headers) ==
    LET first == GetOr(headers, UserAgent1, None)
    IN IF first # None /\ first # <<>> THEN first ELSE GetOr(headers, UserAgent2, None)

\* alias in user_agent: the aliases are chunks of the User-Agent strings
Contains(str, alias) == alias \in SeqToSet(str)

get_browser(ua) ==
    IF Contains(ua, "Firefox") \/ Contains(ua, "FxiOS") THEN S("firefox")
    ELSE IF Contains(ua, "Chrome") \/ Contains(ua, "CriOS") THEN S("chrome")
    ELSE IF Contains(ua, "Safari") THEN S("safari")
    ELSE IF Contains(ua, "Edge") \/ Contains(ua, "EdgA") \/ Contains(ua, "Edg")
            \/ Contains(ua, "EdgiOS") THEN S("edge")
    ELSE None

PASCALIZE_UPPER == {<<"d", "n", "t">>, <<"r", "t", "t">>, <<"e", "c", "t">>}

pascalize(name) ==
    IF startswith(name, <<":">>)
       \/ startswith(name, <<"s", "e", "c", "-", "c", "h", "-", "u", "a">>)
    THEN name
    ELSE IF name \in PASCALIZE_UPPER THEN upper(name)
    ELSE title(name)

RECURSIVE pascalize_into(_, _)
pascalize_into(result, headers) ==
    IF headers = <<>> THEN result
    ELSE pascalize_into(Put(result, pascalize(Head(headers).k), Head(headers).v), Tail(headers))

pascalize_headers(headers) == pascalize_into(<<>>, headers)

\* an argument that is a single str or a sequence; tuplify wraps the str
Str(x) == [tag |-> "str", v |-> x]

Tuple(xs) == [tag |-> "seq", v |-> xs]

tuplify(obj) == IF obj.tag = "str" THEN <<obj.v>> ELSE obj.v

\* ---------------------------------------------------- headers/generator.py
SUPPORTED_OPERATING_SYSTEMS == <<windows, macos, linux, S("android"), S("ios")>>

SUPPORTED_DEVICES == <<desktop, mobile>>

\* Optional[int]: <<>> is None
NoInt == <<>>

Falsy(opt_int) == opt_int = <<>> \/ opt_int[1] = 0

\* a str given where a Browser may be given
BrowserName(name) ==
    [is_str |-> TRUE, name |-> name, min_version |-> NoInt, max_version |-> NoInt,
     http_version |-> <<>>]

\* the Browser dataclass
Browser(name, min_version, max_version, http_version) ==
    [is_str |-> FALSE, name |-> name, min_version |-> min_version,
     max_version |-> max_version, http_version |-> http_version]

\* http_version: Union[str, int] = '2'
BrowserDefaultHttpVersion == S("2")

SUPPORTED_BROWSERS ==
    <<BrowserName(S("chrome")), BrowserName(S("firefox")), BrowserName(S("safari")),
      BrowserName(S("edge"))>>

relaxation_order == <<"locales", "devices", "operatingSystems", "browsers">>

\* browser-helper-file.json and headers-order.json
BrowserHelperFile == <<chrome100h2, chrome100h1, MISSING_VALUE_DATASET_TOKEN, firefox95h2>>

HeaderOrderList ==
    <<Connection1, Connection2, UserAgent1, UserAgent2, AcceptLanguage1, AcceptLanguage2,
      SecFetchSite1, SecFetchSite2, SecFetchMode1, SecFetchMode2, SecFetchUser1,
      SecFetchUser2, SecFetchDest1, SecFetchDest2>>

\* _load_headers_order, then self.headers_order.get(browser_name)
headers_order_get(browser_name) ==
    IF browser_name \in {S("chrome"), S("firefox")} THEN HeaderOrderList ELSE <<>>

_prepare_http_browser_object(http_browser_string) ==
    LET parts == split(http_browser_string, "|")
        browser_string == parts[1]
        name_version == split(browser_string, "/")
        version_parts == split(name_version[2], ".")
    IN [name |-> name_version[1],
        version |-> [i \in 1..Len(version_parts) |-> int(version_parts[i])],
        complete_string |-> http_browser_string,
        http_version |-> parts[2]]

is_http2(browser) == browser.http_version = S("2")

\* _load_unique_browsers
unique_browsers ==
    LET strings == SelectSeq(BrowserHelperFile, LAMBDA x : x # MISSING_VALUE_DATASET_TOKEN)
    IN [i \in 1..Len(strings) |-> _prepare_http_browser_object(strings[i])]

_prepare_browsers_config(browsers, http_version) ==
    [i \in 1..Len(browsers) |->
        IF browsers[i].is_str
        THEN Browser(browsers[i].name, NoInt, NoInt, http_version)
        ELSE browsers[i]]

\* HeaderGenerator.__init__
HeaderGenerator(browser, os, device, locale, http_version, strict) ==
    [browsers |-> _prepare_browsers_config(tuplify(browser), http_version),
     os |-> tuplify(os),
     devices |-> tuplify(device),
     locales |-> tuplify(locale),
     http_version |-> http_version,
     strict |-> strict]

\* {**a, **b} for option dicts
Merge(a, b) ==
    [key \in DOMAIN a \cup DOMAIN b |-> IF key \in DOMAIN b THEN b[key] ELSE a[key]]

Without(opts, key) == [x \in DOMAIN opts \ {key} |-> opts[x]]

With(opts, key, val) == [x \in DOMAIN opts \cup {key} |-> IF x = key THEN val ELSE opts[x]]

\* the options dict _update_http_version leaves behind
_update_http_version(opts) ==
    LET http_version == IF "http_version" \in DOMAIN opts THEN opts.http_version
                        ELSE self_options.http_version
    IN IF "browsers" \in DOMAIN opts
       THEN With(opts, "browsers", _prepare_browsers_config(opts.browsers, http_version))
       ELSE With(opts, "browsers",
                 [i \in 1..Len(self_options.browsers) |->
                     Browser(self_options.browsers[i].name,
                             self_options.browsers[i].min_version,
                             self_options.browsers[i].max_version, http_version)])

BrowserMatches(browser, browser_option) ==
    /\ browser.name = browser_option.name
    /\ (Falsy(browser.min_version) \/ browser.min_version[1] <= browser_option.version[1])
    /\ (Falsy(browser.max_version) \/ browser.max_version[1] >= browser_option.version[1])
    /\ (browser.http_version = <<>> \/ browser.http_version = browser_option.http_version)

RECURSIVE _get_browser_http_options(_)
_get_browser_http_options(browsers) ==
    IF browsers = <<>> THEN <<>>
    ELSE LET matching == SelectSeq(unique_browsers,
                                   LAMBDA option : BrowserMatches(Head(browsers), option))
         IN [i \in 1..Len(matching) |-> matching[i].complete_string]
            \o _get_browser_http_options(Tail(browsers))

_get_possible_attribute_values(header_options) ==
    LET browsers == _prepare_browsers_config(
                        IF "browsers" \in DOMAIN header_options
                        THEN header_options.browsers ELSE <<>>,
                        IF "http_version" \in DOMAIN header_options
                        THEN header_options.http_version ELSE S("2"))
        browser_http_options == _get_browser_http_options(browsers)
        base == <<KV(BROWSER_HTTP, browser_http_options),
                  KV(OPERATING_SYSTEM, IF "os" \in DOMAIN header_options
                                       THEN header_options.os
                                       ELSE SUPPORTED_OPERATING_SYSTEMS)>>
    IN IF "devices" \in DOMAIN header_options
       THEN Append(base, KV(DEVICE, header_options.devices))
       ELSE base

filter_browser_http(value, http1_values, http2_values) ==
    LET parts == split(value, "|")
        browser_name == parts[1]
        http_version == parts[2]
    IN IF http_version = S("1")
       THEN http1_values = <<>> \/ browser_name \in SeqToSet(GetOr(http1_values, BROWSER, <<>>))
       ELSE http2_values = <<>> \/ browser_name \in SeqToSet(GetOr(http2_values, BROWSER, <<>>))

filter_other_values(value, http1_values, http2_values, key) ==
    IF http1_values # <<>> \/ http2_values # <<>>
    THEN \/ value \in SeqToSet(GetOr(http1_values, key, <<>>))
         \/ value \in SeqToSet(GetOr(http2_values, key, <<>>))
    ELSE TRUE

_prepare_constraints(possible_attribute_values, http1_values, http2_values) ==
    [i \in 1..Len(possible_attribute_values) |->
        LET key == possible_attribute_values[i].k
        IN KV(key, SelectSeq(possible_attribute_values[i].v,
                LAMBDA x : IF key = BROWSER_HTTP
                           THEN filter_browser_http(x, http1_values, http2_values)
                           ELSE filter_other_values(x, http1_values, http2_values, key)))]

ChromeSecFetchVersion == 76

FirefoxSecFetchVersion == 90

EdgeSecFetchVersion == 79

_should_add_sec_fetch(browser) ==
    \/ browser.name = S("chrome") /\ browser.version[1] >= ChromeSecFetchVersion
    \/ browser.name = S("firefox") /\ browser.version[1] >= FirefoxSecFetchVersion
    \/ browser.name = S("edge") /\ browser.version[1] >= EdgeSecFetchVersion

HTTP1_SEC_FETCH_ATTRIBUTES ==
    <<KV(SecFetchMode1, S("same-site")), KV(SecFetchDest1, S("navigate")),
      KV(SecFetchSite1, S("?1")), KV(SecFetchUser1, S("document"))>>

HTTP2_SEC_FETCH_ATTRIBUTES ==
    <<KV(SecFetchMode2, S("same-site")), KV(SecFetchDest2, S("navigate")),
      KV(SecFetchSite2, S("?1")), KV(SecFetchUser2, S("document"))>>

\* f"{1.0 - index * 0.1:.1f}" for index 0 .. 10
QualityText(index) == IF index = 0 THEN "1.0" ELSE "0." \o Digits[11 - index]

RECURSIVE accept_language_from(_, _)
accept_language_from(locales, index) ==
    IF locales = <<>> THEN <<>>
    ELSE (IF index = 0 THEN <<>> ELSE <<",", " ">>)
         \o Head(locales) \o <<";", "q=", QualityText(index)>>
         \o accept_language_from(Tail(locales), index + 1)

_get_accept_language_header(locales) == accept_language_from(locales, 0)

\* what a step of generate() ends with
Headers(h) == [kind |-> "headers", headers |-> h]

Raised(kind) == [kind |-> kind, headers |-> <<>>]

\* faulty variant: the headers are returned in the order they were given
order_headers_in_given_order(headers) ==
    LET ua == get_user_agent(headers)
        browser_name == get_browser(ua)
    IN IF ua = None THEN Raised("ValueError: Failed to find User-Agent")
       ELSE IF browser_name = None THEN Raised("ValueError: Failed to find browser")
       ELSE Headers(headers)

order_headers(headers) ==
    LET ua == get_user_agent(headers)
        browser_name == get_browser(ua)
        header_order == headers_order_get(browser_name)
        present == SelectSeq(header_order, LAMBDA key : Has(headers, key))
    IN IF ua = None THEN Raised("ValueError: Failed to find User-Agent")
       ELSE IF browser_name = None THEN Raised("ValueError: Failed to find browser")
       ELSE IF header_order # <<>>
            THEN Headers([i \in 1..Len(present) |-> KV(present[i], Get(headers, present[i]))])
            ELSE Headers(headers)

\* faulty variant: only the synthetic keys are omitted
omitted_only_if_synthetic(k, v) == startswith(k, <<"*">>)

\* lines 258-263 of _get_headers: the entries the comprehension leaves out
omitted(k, v) ==
    \/ lower(k) = Connection2 /\ v = close
    \/ startswith(k, <<"*">>)
    \/ v = MISSING_VALUE_DATASET_TOKEN

\* lines 234-267 of _get_headers: from the full sample to the ordered headers
post_process(full_sample, header_options, rdh) ==
    LET generated_http_and_browser == _prepare_http_browser_object(Get(full_sample, BROWSER_HTTP))
        accept_language_field_name ==
            IF is_http2(generated_http_and_browser) THEN AcceptLanguage2 ELSE AcceptLanguage1
        with_language == Put(full_sample, accept_language_field_name,
                             _get_accept_language_header(header_options.locales))
        with_sec_fetch ==
            IF _should_add_sec_fetch(generated_http_and_browser)
            THEN IF is_http2(generated_http_and_browser)
                 THEN Update(with_language, HTTP2_SEC_FETCH_ATTRIBUTES)
                 ELSE Update(with_language, HTTP1_SEC_FETCH_ATTRIBUTES)
            ELSE with_language
        kept == SelectSeq(with_sec_fetch, LAMBDA e : ~omitted(e.k, e.v))
    IN order_headers(Update(kept, rdh))

RECURSIVE after_retries(_, _)
\* return self.order_headers(pascalize_headers(headers2)) in each waiting call
after_retries(n, result) ==
    IF n = 0 \/ result.kind # "headers" THEN result
    ELSE after_retries(n - 1, order_headers(pascalize_headers(result.headers)))

\* lines 162-164 of generate
generate_return(result) ==
    LET http_version == IF "http_version" \in DOMAIN call_options
                        THEN call_options.http_version ELSE self_options.http_version
    IN IF result.kind = "headers" /\ http_version = S("2")
       THEN Headers(pascalize_headers(result.headers))
       ELSE result

\* ------------------- BayesianNetwork.generate_consistent_sample_when_possible
\* the Optional[Dict] a search returns
NoSample == [is_none |-> TRUE, value |-> <<>>]

Some(x) == [is_none |-> FALSE, value |-> x]

Frame(depth) == [depth |-> depth, banned_values |-> <<>>]

\* the call recursively_generate_consistent_sample_when_possible({}, vp, 0)
generate_consistent_sample_when_possible(nw, vp) ==
    /\ network' = nw
    /\ value_possibilities' = vp
    /\ sample_so_far' = <<>>
    /\ frames' = <<Frame(0)>>
    /\ s_pc' = "loop"
    /\ next_sample' = NoSample

Top == frames[Len(frames)]

TopNode == nodes_in_sampling_order(network)[Top.depth + 1]

\* if depth == len(self.nodes_in_sampling_order): return sample_so_far
\* (every caller returns next_sample as soon as it is not None)
ReturnSample ==
    /\ s_pc = "loop"
    /\ Top.depth = Len(nodes_in_sampling_order(network))
    /\ next_sample' = Some(sample_so_far)
    /\ frames' = <<>>
    /\ s_pc' = "done"
    /\ UNCHANGED <<network, value_possibilities, sample_so_far>>
    /\ UNCHANGED caller_vars

\* what one pass of the while loop draws
Draw(anchor) ==
    sample_according_to_restrictions(TopNode, sample_so_far,
        GetOr(value_possibilities, TopNode.name, TopNode.possibleValues),
        Top.banned_values, anchor)

\* a value was drawn: assign it and recurse one level deeper
SampleAndDescend ==
    /\ s_pc = "loop"
    /\ Top.depth < Len(nodes_in_sampling_order(network))
    /\ \E anchor \in 0..(AnchorScale - 1) :
         /\ Draw(anchor) # None
         /\ sample_so_far' = Put(sample_so_far, TopNode.name, Draw(anchor))
    /\ frames' = Append(frames, Frame(Top.depth + 1))
    /\ UNCHANGED <<network, value_possibilities, s_pc, next_sample>>
    /\ UNCHANGED caller_vars

\* no value can be drawn: break out of the loop and return None
DeadEnd ==
    /\ s_pc = "loop"
    /\ Top.depth < Len(nodes_in_sampling_order(network))
    /\ Draw(0) = None
    /\ frames' = SubSeq(frames, 1, Len(frames) - 1)
    /\ s_pc' = "returned_none"
    /\ UNCHANGED <<network, value_possibilities, sample_so_far, next_sample>>
    /\ UNCHANGED caller_vars

\* faulty variant: the failed value stays in the assignment
del_sample_so_far_keeping_entry(so_far, name) == so_far

\* del sample_so_far[node.name]
del_sample_so_far(so_far, name) == Del(so_far, name)

\* the caller got None: banned_values.append(sample_value); del sample_so_far[name]
BanAndRetry ==
    /\ s_pc = "returned_none"
    /\ frames # <<>>
    /\ frames' = [frames EXCEPT ![Len(frames)].banned_values =
                      Append(@, Get(sample_so_far, TopNode.name))]
    /\ sample_so_far' = del_sample_so_far(sample_so_far, TopNode.name)
    /\ s_pc' = "loop"
    /\ UNCHANGED <<network, value_possibilities, next_sample>>
    /\ UNCHANGED caller_vars

\* the outermost frame returned None
ReturnNone ==
    /\ s_pc = "returned_none"
    /\ frames = <<>>
    /\ next_sample' = NoSample
    /\ s_pc' = "done"
    /\ UNCHANGED <<network, value_possibilities, sample_so_far, frames>>
    /\ UNCHANGED caller_vars

SearchStep == ReturnSample \/ SampleAndDescend \/ DeadEnd \/ BanAndRetry \/ ReturnNone

\* no search has been called yet
SearchIdle ==
    /\ value_possibilities = <<>>
    /\ sample_so_far = <<>>
    /\ frames = <<>>
    /\ s_pc = "idle"
    /\ next_sample = NoSample

\* ------------------------------------------------ HeaderGenerator.generate
NoneArg == [tag |-> "None", v |-> <<>>]

Bool(b) == [tag |-> "bool", v |-> b]

IntArg(n) == [tag |-> "int", v |-> n]

Dict(d) == [tag |-> "dict", v |-> d]

\* str(http_version) for 1 and 2
str(n) == S(Digits[n + 1])

\* lines 149-161 of generate: the options that are not None
generate_options(browser, os, device, locale, http_version, strict) ==
    LET args == [browsers |-> browser, os |-> os, devices |-> device, locales |-> locale,
                 http_version |-> http_version, strict |-> strict]
        given == {key \in DOMAIN args : args[key].tag # "None"}
    IN [key \in given |->
           IF key = "http_version" THEN str(args[key].v)
           ELSE IF key = "strict" THEN args[key].v
           ELSE tuplify(args[key])]

HeaderOptions == Merge(self_options, options)

\* faulty variant: the call's options are written into self.options
stored_options_updated_in_place(opts) == Merge(self_options, opts)

\* self.options after header_options = {**self.options, **options} and
\* _update_http_version: both build new objects and assign none to self
stored_options(opts) == self_options

\* lines 183-214 of _get_headers: a call of _get_headers up to its call of
\* generate_consistent_sample_when_possible on the input network
get_headers_call(opts, ua, rdh, d, r) ==
    LET updated == IF \/ "browsers" \in DOMAIN opts
                      \/ /\ "http_version" \in DOMAIN opts
                         /\ opts.http_version # self_options.http_version
                   THEN _update_http_version(opts)
                   ELSE opts
        header_options == Merge(self_options, updated)
        possible_attribute_values == _get_possible_attribute_values(header_options)
        http1_values == IF ua # <<>>
                        THEN get_possible_values("header", <<KV(UserAgent1, ua)>>).value
                        ELSE <<>>
        http2_values == IF ua # <<>>
                        THEN get_possible_values("header", <<KV(UserAgent2, ua)>>).value
                        ELSE <<>>
        constraints == _prepare_constraints(possible_attribute_values, http1_values, http2_values)
    IN /\ options' = updated
       /\ self_options' = stored_options(updated)
       /\ user_agent' = ua
       /\ request_dependent_headers' = rdh
       /\ call_depth' = d
       /\ retries' = r
       /\ generated_sample' = <<>>
       /\ hg_pc' = "input_sample"
       /\ outcome' = Raised("running")
       /\ generate_consistent_sample_when_possible("input", constraints)

\* generate() returns or raises
generate_ends(result) ==
    /\ hg_pc' = "done"
    /\ outcome' = generate_return(after_retries(retries, result))

CallBrowserArgs ==
    <<NoneArg,
     Tuple(<<Browser(S("chrome"), <<90>>, <<110>>, BrowserDefaultHttpVersion)>>),
     Tuple(<<Browser(S("firefox"), <<200>>, NoInt, BrowserDefaultHttpVersion)>>)>>

CallOsArgs == <<NoneArg, Str(windows)>>

CallDeviceArgs == <<NoneArg, Tuple(<<mobile>>)>>

CallLocaleArgs == <<NoneArg, Tuple(<<S("en-US"), S("en")>>)>>

CallHttpVersionArgs == <<NoneArg, IntArg(1), IntArg(2)>>

CallStrictArgs == <<NoneArg, Bool(TRUE), Bool(FALSE)>>

CallUserAgentArgs == <<NoneArg, Str(UA_cw_a), Tuple(<<UA_cl, UA_unknown>>)>>

CallRequestDependentHeadersArgs ==
    <<NoneArg,
      Dict(<<KV(XRequestedWith, S("XMLHttpRequest")), KV(Connection1, close)>>)>>

\* if request_dependent_headers is None: request_dependent_headers = {}
dict_or_empty(arg) == IF arg.tag = "None" THEN <<>> ELSE arg.v

\* HeaderGenerator.generate up to the first input sample. generate assigns no
\* attribute of self, so a call starts from the state the constructor left
Generate ==
    /\ hg_pc = "idle"
    /\ \E b \in DOMAIN CallBrowserArgs, o \in DOMAIN CallOsArgs, d \in DOMAIN CallDeviceArgs,
          l \in DOMAIN CallLocaleArgs, h \in DOMAIN CallHttpVersionArgs,
          s \in DOMAIN CallStrictArgs, u \in DOMAIN CallUserAgentArgs,
          r \in DOMAIN CallRequestDependentHeadersArgs :
         LET opts == generate_options(CallBrowserArgs[b], CallOsArgs[o], CallDeviceArgs[d],
                                      CallLocaleArgs[l], CallHttpVersionArgs[h],
                                      CallStrictArgs[s])
         IN /\ call_options' = opts
            /\ get_headers_call(opts, tuplify(CallUserAgentArgs[u]),
                                dict_or_empty(CallRequestDependentHeadersArgs[r]), 1, 0)
    /\ UNCHANGED hash_seed
    /\ UNCHANGED <<fg_vars, fn_vars>>

InputSampleFailed ==
    /\ hg_pc = "input_sample"
    /\ s_pc = "done"
    /\ (next_sample.is_none \/ next_sample.value = <<>>)

\* headers2 = self._get_headers(..., **options, http_version='2')
HttpRetry ==
    /\ InputSampleFailed
    /\ HeaderOptions.http_version = S("1")
    /\ "http_version" \notin DOMAIN options
    /\ call_depth < MaxDepth
    /\ get_headers_call(With(options, "http_version", S("2")), user_agent,
                        request_dependent_headers, call_depth + 1, retries + 1)
    /\ UNCHANGED <<hash_seed, call_options>>
    /\ UNCHANGED <<fg_vars, fn_vars>>

\* the same call when options holds http_version already: the keyword is
\* given twice
HttpRetryTypeError ==
    /\ InputSampleFailed
    /\ HeaderOptions.http_version = S("1")
    /\ "http_version" \in DOMAIN options
    /\ generate_ends(Raised("TypeError: multiple values for keyword argument"))
    /\ UNCHANGED <<search_vars, hash_seed, self_options, call_options, options, user_agent,
                   request_dependent_headers, retries, call_depth, generated_sample>>
    /\ UNCHANGED <<fg_vars, fn_vars>>

\* next((i for i, key in enumerate(self.relaxation_order) if key in options), -1)
relaxation_index ==
    LET present == {i \in 1..Len(relaxation_order) : relaxation_order[i] \in DOMAIN options}
    IN IF present = {} THEN -1
       ELSE (CHOOSE i \in present : \A j \in present : i <= j) - 1

RaiseNoHeaders ==
    /\ InputSampleFailed
    /\ HeaderOptions.http_version # S("1")
    /\ (HeaderOptions.strict \/ relaxation_index = -1)
    /\ generate_ends(Raised("ValueError: No headers based on this input can be generated"))
    /\ UNCHANGED <<search_vars, hash_seed, self_options, call_options, options, user_agent,
                   request_dependent_headers, retries, call_depth, generated_sample>>
    /\ UNCHANGED <<fg_vars, fn_vars>>

\* del relaxed_options[...]; return self._get_headers(..., **relaxed_options)
Relax ==
    /\ InputSampleFailed
    /\ HeaderOptions.http_version # S("1")
    /\ ~HeaderOptions.strict
    /\ relaxation_index # -1
    /\ call_depth < MaxDepth
    /\ get_headers_call(Without(options, relaxation_order[relaxation_index + 1]), user_agent,
                        request_dependent_headers, call_depth + 1, retries)
    /\ UNCHANGED <<hash_seed, call_options>>
    /\ UNCHANGED <<fg_vars, fn_vars>>

\* the nested call that exceeds the interpreter's recursion limit
RecursionLimit ==
    /\ InputSampleFailed
    /\ call_depth = MaxDepth
    /\ \/ /\ HeaderOptions.http_version = S("1")
          /\ "http_version" \notin DOMAIN options
       \/ /\ HeaderOptions.http_version # S("1")
          /\ ~HeaderOptions.strict
          /\ relaxation_index # -1
    /\ generate_ends(Raised("RecursionError"))
    /\ UNCHANGED <<search_vars, hash_seed, self_options, call_options, options, user_agent,
                   request_dependent_headers, retries, call_depth, generated_sample>>
    /\ UNCHANGED <<fg_vars, fn_vars>>

\* generate_sample: sample = input_values.copy()
InputSampleFound ==
    /\ hg_pc = "input_sample"
    /\ s_pc = "done"
    /\ ~next_sample.is_none
    /\ next_sample.value # <<>>
    /\ generated_sample' = next_sample.value
    /\ hg_pc' = "generate_sample"
    /\ UNCHANGED <<search_vars, hash_seed, self_options, call_options, options, user_agent,
                   request_dependent_headers, retries, call_depth, outcome>>
    /\ UNCHANGED <<fg_vars, fn_vars>>

\* the nodes generate_sample still has to sample
Unsampled(nodes, sample_dict) ==
    SelectSeq(nodes, LAMBDA node : ~Has(sample_dict, node.name))

\* one pass of the loop of generate_sample that samples a node
GenerateSampleStep ==
    /\ hg_pc = "generate_sample"
    /\ Unsampled(HeaderNetwork, generated_sample) # <<>>
    /\ LET node == Head(Unsampled(HeaderNetwork, generated_sample))
       IN \E anchor \in 0..(AnchorScale - 1) :
            LET value == sample(node, generated_sample, anchor)
            IN IF value = IndexError
               THEN /\ generate_ends(Raised("IndexError"))
                    /\ UNCHANGED generated_sample
               ELSE /\ generated_sample' = Put(generated_sample, node.name, value)
                    /\ UNCHANGED <<hg_pc, outcome>>
    /\ UNCHANGED <<search_vars, hash_seed, self_options, call_options, options, user_agent,
                   request_dependent_headers, retries, call_depth>>
    /\ UNCHANGED <<fg_vars, fn_vars>>

\* lines 235-267 of _get_headers, the returns of the waiting calls and of generate
ReturnHeaders ==
    /\ hg_pc = "generate_sample"
    /\ Unsampled(HeaderNetwork, generated_sample) = <<>>
    /\ generate_ends(post_process(generated_sample, HeaderOptions, request_dependent_headers))
    /\ UNCHANGED <<search_vars, hash_seed, self_options, call_options, options, user_agent,
                   request_dependent_headers, retries, call_depth, generated_sample>>
    /\ UNCHANGED <<fg_vars, fn_vars>>

\* ------------------------------------------------ fingerprints/generator.py
\* Screen: the four bounds are Optional[int]
Screen(min_width, max_width, min_height, max_height) ==
    [tag |-> "Screen", min_width |-> min_width, max_width |-> max_width,
     min_height |-> min_height, max_height |-> max_height]

is_set(screen_options) ==
    \/ screen_options.min_width # <<>>
    \/ screen_options.max_width # <<>>
    \/ screen_options.min_height # <<>>
    \/ screen_options.max_height # <<>>

\* _first(value, default): the first of the two that is not None
_first(value, default) == IF value.tag # "None" THEN value ELSE default

\* json.loads on the tokens of an object with integer members
JSONDecodeError == [error |-> TRUE, value |-> <<>>]

Parsed(x) == [error |-> FALSE, value |-> x]

JSONPunctuation == {"{", "}", ":", ","}

RECURSIVE digit_run(_)
digit_run(tokens) ==
    IF tokens # <<>> /\ Head(tokens) \in SeqToSet(Digits)
    THEN 1 + digit_run(Tail(tokens))
    ELSE 0

RECURSIVE json_members(_, _)
json_members(tokens, acc) ==
    IF Len(tokens) < 2 \/ tokens[1] \in JSONPunctuation \/ tokens[2] # ":"
    THEN JSONDecodeError
    ELSE LET n == digit_run(SubSeq(tokens, 3, Len(tokens)))
             rest == SubSeq(tokens, 3 + n, Len(tokens))
             members == Put(acc, tokens[1], int(SubSeq(tokens, 3, 2 + n)))
         IN IF n = 0 \/ rest = <<>> THEN JSONDecodeError
            ELSE IF rest = <<"}">> THEN Parsed(members)
            ELSE IF Head(rest) = "," THEN json_members(Tail(rest), members)
            ELSE JSONDecodeError

json_loads(tokens) ==
    IF tokens = <<>> \/ Head(tokens) # "{" THEN JSONDecodeError
    ELSE IF tokens = <<"{", "}">> THEN Parsed(<<>>)
    ELSE json_members(Tail(tokens), <<>>)

\* screen_string[len('*STRINGIFIED*'):]
after_stringified(string) == IF string = <<>> THEN <<>> ELSE Tail(string)

width == "\"width\""

height == "\"height\""

\* max_width or 1e5
DefaultMaxDimension == 100000

\* value or default for an Optional[int]
Or(opt_int, default) == IF Falsy(opt_int) THEN default ELSE opt_int[1]

_is_screen_within_constraints_ignoring_minimum(screen_string, screen_options) ==
    LET parsed == json_loads(after_stringified(screen_string))
    IN /\ ~parsed.error
       /\ GetOr(parsed.value, width, 0) <= Or(screen_options.max_width, DefaultMaxDimension)
       /\ GetOr(parsed.value, height, 0) <= Or(screen_options.max_height, DefaultMaxDimension)

_is_screen_within_constraints(screen_string, screen_options) ==
    LET parsed == json_loads(after_stringified(screen_string))
    IN /\ ~parsed.error
       /\ GetOr(parsed.value, width, -1) >= Or(screen_options.min_width, 0)
       /\ GetOr(parsed.value, height, -1) >= Or(screen_options.min_height, 0)
       /\ GetOr(parsed.value, width, 0) <= Or(screen_options.max_width, DefaultMaxDimension)
       /\ GetOr(parsed.value, height, 0) <= Or(screen_options.max_height, DefaultMaxDimension)

\* partial_csp: what it raises or returns (<<>>: None) and the filtered_values
\* it leaves behind
partial_csp(strict, screen_options, filtered) ==
    IF screen_options.tag = "None" \/ ~is_set(screen_options)
    THEN [raised |-> FALSE, csp |-> <<>>, filtered_values |-> filtered]
    ELSE LET with_screen ==
                 Put(filtered, screen,
                     SelectSeq(nodes_by_name("fingerprint", screen).possibleValues,
                               LAMBDA screen_string :
                                   _is_screen_within_constraints(screen_string, screen_options)))
             closure == get_possible_values("fingerprint", with_screen)
         IN IF ~closure.error
            THEN [raised |-> FALSE, csp |-> closure.value, filtered_values |-> with_screen]
            ELSE IF strict
                 THEN [raised |-> TRUE, csp |-> <<>>, filtered_values |-> with_screen]
                 ELSE [raised |-> FALSE, csp |-> <<>>,
                       filtered_values |-> Del(with_screen, screen)]

NoFingerprint == [screen |-> <<>>, navigator |-> <<>>, headers |-> <<>>]

FingerprintRaised(kind) == [kind |-> kind, fingerprint |-> NoFingerprint]

FingerprintReturned(fingerprint) == [kind |-> "fingerprint", fingerprint |-> fingerprint]

\* {**filtered_values, 'userAgent': (user_agent,)}
fingerprint_constraints_without_user_agent(filtered, ua) == filtered

fingerprint_constraints(filtered, ua) == Put(filtered, userAgent, <<ua>>)

\* a value of a sample with its Python type: str, NoneType or dict
PyStr(x) == [type |-> "str", v |-> x]

PyNone == [type |-> "NoneType", v |-> None]

PyDict(d) == [type |-> "dict", v |-> d]

\* json.loads raised
PyRaised == [type |-> "JSONDecodeError", v |-> <<>>]

\* faulty variant: a *STRINGIFIED* value is left as it is
unpack_attribute_leaving_stringified(x) ==
    IF x.type = "str" /\ x.v = MISSING_VALUE_DATASET_TOKEN THEN PyNone ELSE x

\* lines 222-227 of generate: one attribute of the sample, unpacked
unpack_attribute(x) ==
    LET missing_replaced ==
            IF x.type = "str" /\ x.v = MISSING_VALUE_DATASET_TOKEN THEN PyNone ELSE x
    IN IF missing_replaced.type = "str" /\ startswith(missing_replaced.v, <<STRINGIFIED>>)
       THEN LET parsed == json_loads(after_stringified(missing_replaced.v))
            IN IF parsed.error THEN PyRaised ELSE PyDict(parsed.value)
       ELSE missing_replaced

\* lines 221-227 of generate: the loop over the attributes of the sample
unpack_sample(fingerprint) ==
    [i \in 1..Len(fingerprint) |-> KV(fingerprint[i].k, unpack_attribute(fingerprint[i].v))]

\* the unpacked value of an attribute the network holds as a str
unpack(value) == unpack_attribute(PyStr(value)).v

\* lines 229-233 of generate
accepted_languages(headers) ==
    LET accept_language_header_value == GetOr(headers, AcceptLanguage1, <<>>)
        locales == split(accept_language_header_value, ",")
    IN [i \in 1..Len(locales) |-> split(locales[i], ";")[1]]

\* the fields of the Fingerprint that the two modelled nodes and the headers fill
_transform_fingerprint(fingerprint, headers) ==
    [screen |-> unpack(Get(fingerprint, screen)),
     navigator |-> [userAgent |-> unpack(Get(fingerprint, userAgent)),
                    languages |-> accepted_languages(headers),
                    language |-> accepted_languages(headers)[1]],
     headers |-> headers]

FingerprintGeneratorIdle ==
    /\ fg_screen = NoneArg
    /\ fg_strict = FALSE
    /\ filtered_values = <<>>
    /\ fg_user_agent = None
    /\ attempts = 0
    /\ fg_pc = "idle"
    /\ fg_outcome = FingerprintRaised("idle")

\* no function has been called directly
FunctionIdle ==
    /\ fn_pc = "idle"
    /\ fn_arg = <<>>
    /\ fn_result = <<>>

FingerprintScreenArgs ==
    <<NoneArg,
      Screen(<<1000>>, NoInt, NoInt, NoInt),
      Screen(NoInt, <<0>>, NoInt, <<700>>),
      Screen(NoInt, NoInt, NoInt, <<500>>)>>

FingerprintStrictArgs == <<NoneArg, Bool(TRUE)>>

\* **header_kwargs of generate: browser, device, locale, http_version
FingerprintHeaderArgs ==
    <<generate_options(NoneArg, NoneArg, NoneArg, NoneArg, NoneArg, NoneArg),
      generate_options(NoneArg, NoneArg, Str(mobile), NoneArg, IntArg(1), NoneArg),
      generate_options(CallBrowserArgs[3], NoneArg, NoneArg, NoneArg, NoneArg, NoneArg),
      generate_options(NoneArg, NoneArg, NoneArg, CallLocaleArgs[2], NoneArg, NoneArg)>>

\* FingerprintGenerator.generate up to the first input sample of the header
\* generator (lines 179-196)
FingerprintGenerate ==
    /\ fg_pc = "idle"
    /\ \E sc \in DOMAIN FingerprintScreenArgs, st \in DOMAIN FingerprintStrictArgs,
          hk \in DOMAIN FingerprintHeaderArgs :
         LET screen_options == _first(FingerprintScreenArgs[sc], self_screen)
             strict == _first(FingerprintStrictArgs[st], Bool(self_strict)).v
             csp == partial_csp(strict, screen_options, <<>>)
             header_kwargs == FingerprintHeaderArgs[hk]
         IN /\ fg_screen' = screen_options
            /\ fg_strict' = strict
            /\ filtered_values' = csp.filtered_values
            /\ IF csp.raised
               THEN /\ fg_pc' = "done"
                    /\ fg_outcome' = FingerprintRaised("ValueError: too restrictive")
                    /\ UNCHANGED <<search_vars, self_options, call_options, options, user_agent,
                                   request_dependent_headers, retries, call_depth,
                                   generated_sample, hg_pc, outcome>>
               ELSE /\ fg_pc' = "headers"
                    /\ UNCHANGED fg_outcome
                    /\ call_options' = header_kwargs
                    /\ get_headers_call(header_kwargs,
                                        IF csp.csp # <<>> THEN Get(csp.csp, userAgent)
                                        ELSE <<>>,
                                        <<>>, 1, 0)
    /\ UNCHANGED <<hash_seed, self_screen, self_strict, fg_user_agent, attempts>>
    /\ UNCHANGED fn_vars

\* headers = self.header_generator.generate(...) raised
FingerprintHeadersRaised ==
    /\ fg_pc = "headers"
    /\ hg_pc = "done"
    /\ outcome.kind # "headers"
    /\ fg_pc' = "done"
    /\ fg_outcome' = FingerprintRaised(outcome.kind)
    /\ UNCHANGED <<search_vars, hash_seed, hg_vars, self_screen, self_strict, fg_screen,
                   fg_strict, filtered_values, fg_user_agent, attempts>>
    /\ UNCHANGED fn_vars

\* lines 197-206: the User-Agent of the headers and the first pass of the loop
FingerprintFirstAttempt ==
    /\ fg_pc = "headers"
    /\ hg_pc = "done"
    /\ outcome.kind = "headers"
    /\ LET ua == get_user_agent(outcome.headers)
       IN IF ua = None
          THEN /\ fg_pc' = "done"
               /\ fg_outcome' = FingerprintRaised("ValueError: Failed to find User-Agent")
               /\ UNCHANGED <<search_vars, fg_user_agent, attempts>>
          ELSE /\ fg_user_agent' = ua
               /\ attempts' = 1
               /\ fg_pc' = "sampling"
               /\ UNCHANGED fg_outcome
               /\ generate_consistent_sample_when_possible(
                      "fingerprint", fingerprint_constraints(filtered_values, ua))
    /\ UNCHANGED <<hash_seed, hg_vars, self_screen, self_strict, fg_screen, fg_strict,
                   filtered_values>>
    /\ UNCHANGED fn_vars

FingerprintSampleFailed ==
    /\ fg_pc = "sampling"
    /\ s_pc = "done"
    /\ next_sample.is_none

\* lines 210-214: if strict: raise ValueError
FingerprintRaise ==
    /\ FingerprintSampleFailed
    /\ fg_strict
    /\ fg_pc' = "done"
    /\ fg_outcome' = FingerprintRaised("ValueError: Cannot generate headers")
    /\ UNCHANGED <<search_vars, hash_seed, hg_vars, self_screen, self_strict, fg_screen,
                   fg_strict, filtered_values, fg_user_agent, attempts>>
    /\ UNCHANGED fn_vars

\* lines 215-217 and the next pass of the loop: filtered_values = {}
FingerprintRelax ==
    /\ FingerprintSampleFailed
    /\ ~fg_strict
    /\ attempts < MaxAttempts
    /\ filtered_values' = <<>>
    /\ attempts' = attempts + 1
    /\ generate_consistent_sample_when_possible(
           "fingerprint", fingerprint_constraints(<<>>, fg_user_agent))
    /\ UNCHANGED <<hash_seed, hg_vars, self_screen, self_strict, fg_screen, fg_strict,
                   fg_user_agent, fg_pc, fg_outcome>>
    /\ UNCHANGED fn_vars

\* lines 207-209 and 219-241: break, unpack, languages, _transform_fingerprint
FingerprintReturn ==
    /\ fg_pc = "sampling"
    /\ s_pc = "done"
    /\ ~next_sample.is_none
    /\ fg_pc' = "done"
    /\ fg_outcome' = FingerprintReturned(_transform_fingerprint(next_sample.value,
                                                                outcome.headers))
    /\ UNCHANGED <<search_vars, hash_seed, hg_vars, self_screen, self_strict, fg_screen,
                   fg_strict, filtered_values, fg_user_agent, attempts>>
    /\ UNCHANGED fn_vars

\* ---------------------------------------------------------------- SpecHG
HashSeeds == {0, 1}

CtorBrowserArgs ==
    <<Tuple(SUPPORTED_BROWSERS),
     Tuple(<<Browser(S("firefox"), <<200>>, NoInt, BrowserDefaultHttpVersion)>>)>>

CtorOsArgs == <<Tuple(SUPPORTED_OPERATING_SYSTEMS)>>

CtorDeviceArgs == <<Tuple(SUPPORTED_DEVICES)>>

CtorLocaleArgs == <<Str(S("en-US"))>>

HeaderGeneratorIdle ==
    /\ call_options = <<>>
    /\ options = <<>>
    /\ user_agent = <<>>
    /\ request_dependent_headers = <<>>
    /\ retries = 0
    /\ call_depth = 0
    /\ generated_sample = <<>>
    /\ hg_pc = "idle"
    /\ outcome = Raised("idle")

InitHG ==
    /\ hash_seed \in HashSeeds
    /\ \E b \in DOMAIN CtorBrowserArgs, o \in DOMAIN CtorOsArgs, d \in DOMAIN CtorDeviceArgs,
          l \in DOMAIN CtorLocaleArgs, http_version \in 1..2, strict \in BOOLEAN :
         self_options = HeaderGenerator(CtorBrowserArgs[b], CtorOsArgs[o], CtorDeviceArgs[d],
                                        CtorLocaleArgs[l], str(http_version), strict)
    /\ HeaderGeneratorIdle
    /\ self_screen = NoneArg
    /\ self_strict = FALSE
    /\ FingerprintGeneratorIdle
    /\ FunctionIdle
    /\ network = "input"
    /\ SearchIdle

NextHG ==
    \/ Generate
    \/ ReturnSample
    \/ SampleAndDescend
    \/ DeadEnd
    \/ BanAndRetry
    \/ ReturnNone
    \/ HttpRetry
    \/ HttpRetryTypeError
    \/ RaiseNoHeaders
    \/ Relax
    \/ RecursionLimit
    \/ InputSampleFound
    \/ GenerateSampleStep
    \/ ReturnHeaders

SpecHG == InitHG /\ [][NextHG]_vars

\* ---------------------------------------------------------------- SpecFG
FingerprintCtorScreenArgs == <<NoneArg, Screen(NoInt, <<1000>>, NoInt, NoInt)>>

\* **header_kwargs of __init__: browser and http_version
FingerprintCtorHeaderArgs ==
    <<HeaderGenerator(CtorBrowserArgs[1], CtorOsArgs[1], CtorDeviceArgs[1], CtorLocaleArgs[1],
                      str(2), FALSE),
      HeaderGenerator(CtorBrowserArgs[2], CtorOsArgs[1], CtorDeviceArgs[1], CtorLocaleArgs[1],
                      str(2), FALSE),
      HeaderGenerator(CtorBrowserArgs[2], CtorOsArgs[1], CtorDeviceArgs[1], CtorLocaleArgs[1],
                      str(1), FALSE)>>

\* FingerprintGenerator.__init__
InitFG ==
    /\ hash_seed \in HashSeeds
    /\ \E hk \in DOMAIN FingerprintCtorHeaderArgs : self_options = FingerprintCtorHeaderArgs[hk]
    /\ \E sc \in DOMAIN FingerprintCtorScreenArgs : self_screen = FingerprintCtorScreenArgs[sc]
    /\ self_strict \in BOOLEAN
    /\ HeaderGeneratorIdle
    /\ FingerprintGeneratorIdle
    /\ FunctionIdle
    /\ network = "input"
    /\ SearchIdle

NextFG ==
    \/ FingerprintGenerate
    \/ ReturnSample
    \/ SampleAndDescend
    \/ DeadEnd
    \/ BanAndRetry
    \/ ReturnNone
    \/ HttpRetry
    \/ HttpRetryTypeError
    \/ RaiseNoHeaders
    \/ Relax
    \/ RecursionLimit
    \/ InputSampleFound
    \/ GenerateSampleStep
    \/ ReturnHeaders
    \/ FingerprintHeadersRaised
    \/ FingerprintFirstAttempt
    \/ FingerprintRaise
    \/ FingerprintRelax
    \/ FingerprintReturn

SpecFG == InitFG /\ [][NextFG]_vars

\* ------------------------------------------- the sampler on its own: SpecBN
RECURSIVE SubSeqs(_)
\* the order-preserving subsequences of s
SubSeqs(s) ==
    IF s = <<>> THEN {<<>>}
    ELSE LET r == SubSeqs(Tail(s)) IN r \cup {<<Head(s)>> \o x : x \in r}

RECURSIVE AllowedMaps(_)
\* the allowed-values maps a caller may pass: per node no entry, or any
\* subsequence of its possible values
AllowedMaps(nodes) ==
    IF nodes = <<>> THEN {<<>>}
    ELSE LET rest == AllowedMaps(Tail(nodes))
         IN rest \cup
            {<<KV(Head(nodes).name, vs)>> \o m :
                vs \in SubSeqs(Head(nodes).possibleValues), m \in rest}

InitBN ==
    /\ network \in {"input", "fingerprint"}
    /\ SearchIdle
    /\ hash_seed = 0
    /\ self_options = <<>>
    /\ HeaderGeneratorIdle
    /\ self_screen = NoneArg
    /\ self_strict = FALSE
    /\ FingerprintGeneratorIdle
    /\ FunctionIdle

CallSearch ==
    /\ s_pc \in {"idle", "done"}
    /\ \E vp \in AllowedMaps(nodes_in_sampling_order(network)) :
         generate_consistent_sample_when_possible(network, vp)
    /\ UNCHANGED caller_vars

NextBN ==
    \/ CallSearch
    \/ ReturnSample
    \/ SampleAndDescend
    \/ DeadEnd
    \/ BanAndRetry
    \/ ReturnNone

SpecBN == InitBN /\ [][NextBN]_vars

\* the search runs on: a frame that can take a step takes it
SpecBNRunning == SpecBN /\ WF_vars(SearchStep)

\* ------------------------------------------- functions called directly: SpecFN
Call(pc, arg) ==
    /\ fn_pc = pc
    /\ fn_arg = arg
    /\ fn_result = <<>>

\* header names: the upper-cased ones, pseudo-headers, client hints, both
\* spellings of generated headers, names with digits
HeaderKeyArgs ==
    <<<<"d", "n", "t">>,
      <<"r", "t", "t">>,
      <<"e", "c", "t">>,
      <<":", "m", "e", "t", "h", "o", "d">>,
      <<":", "a", "u", "t", "h", "o", "r", "i", "t", "y">>,
      <<"s", "e", "c", "-", "c", "h", "-", "u", "a">>,
      <<"s", "e", "c", "-", "c", "h", "-", "u", "a", "-", "m", "o", "b", "i", "l", "e">>,
      <<"a", "c", "c", "e", "p", "t", "-", "l", "a", "n", "g", "u", "a", "g", "e">>,
      <<"A", "c", "c", "e", "p", "t", "-", "L", "a", "n", "g", "u", "a", "g", "e">>,
      <<"u", "s", "e", "r", "-", "a", "g", "e", "n", "t">>,
      <<"c", "o", "n", "n", "e", "c", "t", "i", "o", "n">>,
      <<"x", "-", "r", "e", "q", "u", "e", "s", "t", "e", "d", "-", "w", "i", "t", "h">>,
      <<"X", "-", "R", "e", "q", "u", "e", "s", "t", "e", "d", "-", "W", "i", "t", "h">>,
      <<"x", "-", "a", "1", "b">>,
      <<"t", "e">>,
      <<"u", "p", "g", "r", "a", "d", "e", "-", "i", "n", "s", "e", "c", "u", "r", "e", "-", "r", "e", "q", "u", "e", "s", "t", "s">>,
      <<"D", "N", "T">>,
      <<"S", "e", "c", "-", "F", "e", "t", "c", "h", "-", "S", "i", "t", "e">>>>

RECURSIVE Orderings(_)
\* the sequences without repetition over a set of dict entries: the dicts
\* that hold some of the entries, in any insertion order
Orderings(entries) ==
    {<<>>} \cup UNION {{<<e>> \o rest : rest \in Orderings(entries \ {e})} : e \in entries}

UA_safari == <<"Mozilla/5.0 (Macintosh) Version/16.0 ", "Safari", "/605.1">>

\* headers of a Chrome, of a Safari (no header-order list) and of an
\* unknown client, and headers without a User-Agent
OrderHeadersArgs ==
    Orderings({KV(UserAgent2, UA_cw_a), KV(AcceptLanguage2, S("de")), KV(Connection1, keep_alive),
               KV(XRequestedWith, S("XMLHttpRequest")), KV(SecFetchSite2, S("?1"))})
    \cup Orderings({KV(UserAgent1, UA_fl), KV(UserAgent2, UA_cw_a), KV(Connection2, close)})
    \cup Orderings({KV(UserAgent1, UA_safari), KV(AcceptLanguage1, S("de")),
                    KV(Connection1, keep_alive)})
    \cup Orderings({KV(UserAgent1, UA_unknown), KV(AcceptLanguage1, S("de"))})

\* the values an attribute of a sample has: a plain str, the missing-value
\* token, stringified objects, a stringified text that is no JSON
UnpackValueArgs ==
    {PyStr(UA_cw_a), PyStr(MISSING_VALUE_DATASET_TOKEN), PyStr(scr800), PyStr(scr1920),
     PyStr(<<STRINGIFIED, "{", "}">>), PyStr(<<STRINGIFIED, "{", "\"width\"">>)}

UnpackArgs ==
    {<<KV(userAgent, a), KV(screen, b)>> : a \in UnpackValueArgs, b \in UnpackValueArgs}

\* a call get_possible_values(network, possible_values)
ClosureCall(nw, possible_values) == [network |-> nw, possible_values |-> possible_values]

ClosureArgs ==
    {ClosureCall("input", m) : m \in AllowedMaps(InputNetwork)}
    \cup {ClosureCall("input", <<KV(DEVICE, <<S("tablet")>>)>>),
          ClosureCall("header", <<KV(UserAgent2, <<UA_cw_a>>)>>),
          ClosureCall("header", <<KV(UserAgent2, <<UA_cl, UA_fl>>)>>),
          ClosureCall("header", <<KV(UserAgent1, <<UA_cw_a, UA_cw_b>>)>>),
          ClosureCall("header", <<KV(UserAgent2, <<UA_unknown>>)>>),
          ClosureCall("header", <<KV(UserAgent2, <<UA_cl_m>>), KV(DEVICE, <<desktop>>)>>),
          ClosureCall("fingerprint", <<KV(screen, <<scr1920>>)>>),
          ClosureCall("fingerprint", <<KV(screen, <<scr800, scr1920>>)>>),
          ClosureCall("fingerprint", <<KV(screen, <<>>)>>)}

\* a call sample_random_value_from_possibilities(possible_values, probabilities)
\* and the number random.random() returns in it
SelectionCall(possible_values, probabilities, anchor) ==
    [possible_values |-> possible_values, probabilities |-> probabilities, anchor |-> anchor]

\* distributions of the input network; the values are some of the keys of the
\* distribution, in any order
SelectionArgs ==
    {SelectionCall(order, dist, anchor) :
        order \in Orderings({chrome100h2, chrome100h1, firefox95h2}) \ {<<>>},
        dist \in {BrowserHttpNode.conditionalProbabilities.dist},
        anchor \in 0..(AnchorScale - 1)}
    \cup {SelectionCall(order, dist, anchor) :
        order \in Orderings({desktop, mobile}) \ {<<>>},
        dist \in {<<KV(desktop, 2), KV(mobile, 2)>>, <<KV(desktop, 1), KV(mobile, 1)>>},
        anchor \in 0..(AnchorScale - 1)}

\* a call node.sample_according_to_restrictions(parent_values,
\* value_possibilities, banned_values) and the number random.random() returns
RestrictedCall(node, parent_values, allowed, banned_values, anchor) ==
    [node |-> node, parent_values |-> parent_values, value_possibilities |-> allowed,
     banned_values |-> banned_values, anchor |-> anchor]

\* the operating-system node under a browser with two systems, with one
\* system and with no browser assigned; allowed values in any order, some
\* of them unknown to the node; banned values
RestrictedArgs ==
    {RestrictedCall(OperatingSystemNode, parent_values, allowed, banned_values, anchor) :
        parent_values \in {<<KV(BROWSER_HTTP, chrome100h2)>>, <<KV(BROWSER_HTTP, chrome100h1)>>,
                           <<>>},
        allowed \in Orderings({windows, linux, macos}),
        banned_values \in {<<>>, <<windows>>, <<linux>>, <<linux, windows>>},
        anchor \in 0..(AnchorScale - 1)}

\* a call network.generate_sample(input_values)
GenerateSampleCall(nw, input_values) == [network |-> nw, input_values |-> input_values]

\* no input values, pre-filled values the network knows, pre-filled values
\* no table of the network has a branch for, and the input sample the header
\* generator passes to the header network
GenerateSampleArgs ==
    {GenerateSampleCall("input", <<>>),
     GenerateSampleCall("input", <<KV(OPERATING_SYSTEM, linux)>>),
     GenerateSampleCall("input", <<KV(DEVICE, mobile)>>),
     GenerateSampleCall("input", <<KV(BROWSER_HTTP, firefox95h2), KV(OPERATING_SYSTEM, windows)>>),
     GenerateSampleCall("input", <<KV(OPERATING_SYSTEM, macos)>>),
     GenerateSampleCall("input", <<KV(BROWSER_HTTP, <<"opera", "/", "1", ".", "0", "|", "2">>)>>),
     GenerateSampleCall("header", <<KV(BROWSER_HTTP, chrome100h2), KV(OPERATING_SYSTEM, linux),
                                    KV(DEVICE, mobile)>>),
     GenerateSampleCall("fingerprint", <<KV(userAgent, UA_cw_b)>>),
     GenerateSampleCall("fingerprint", <<KV(userAgent, UA_unknown)>>)}

InitFN ==
    /\ hash_seed \in HashSeeds
    /\ \/ \E i \in DOMAIN HeaderKeyArgs : Call("pascalize", HeaderKeyArgs[i])
       \/ \E headers \in OrderHeadersArgs : Call("order_headers", headers)
       \/ \E fingerprint \in UnpackArgs : Call("unpack", fingerprint)
       \/ \E call \in ClosureArgs : Call("get_possible_values", call)
       \/ \E call \in SelectionArgs : Call("sample_random_value_from_possibilities", call)
       \/ \E call \in RestrictedArgs : Call("sample_according_to_restrictions", call)
       \/ \E call \in GenerateSampleArgs : Call("generate_sample", call)
    /\ network = "input"
    /\ SearchIdle
    /\ self_options = <<>>
    /\ HeaderGeneratorIdle
    /\ self_screen = NoneArg
    /\ self_strict = FALSE
    /\ FingerprintGeneratorIdle

Returned(pc, result) ==
    /\ fn_pc' = pc
    /\ fn_result' = result
    /\ UNCHANGED <<search_vars, hash_seed, hg_vars, fg_vars, fn_arg>>

Pascalize ==
    /\ fn_pc = "pascalize"
    /\ Returned("pascalized", pascalize(fn_arg))

OrderHeaders ==
    /\ fn_pc = "order_headers"
    /\ Returned("ordered", order_headers(fn_arg))

Unpack ==
    /\ fn_pc = "unpack"
    /\ Returned("unpacked", unpack_sample(fn_arg))

Closure ==
    /\ fn_pc \in {"get_possible_values", "get_possible_values_again"}
    /\ Returned("closed", get_possible_values(fn_arg.network, fn_arg.possible_values))

WeightedSelection ==
    /\ fn_pc = "sample_random_value_from_possibilities"
    /\ Returned("selected", sample_random_value_from_possibilities(
                                fn_arg.possible_values, fn_arg.probabilities, fn_arg.anchor))

RestrictedSelection ==
    /\ fn_pc = "sample_according_to_restrictions"
    /\ Returned("sampled", sample_according_to_restrictions(
                               fn_arg.node, fn_arg.parent_values, fn_arg.value_possibilities,
                               fn_arg.banned_values, fn_arg.anchor))

\* generate_sample: sample = input_values.copy()
GenerateSampleCopy ==
    /\ fn_pc = "generate_sample"
    /\ Returned("generate_sample_loop", fn_arg.input_values)

\* one pass of the loop of generate_sample that samples a node; sample()
\* raises IndexError on an empty distribution
GenerateSampleNode ==
    /\ fn_pc = "generate_sample_loop"
    /\ Unsampled(nodes_in_sampling_order(fn_arg.network), fn_result) # <<>>
    /\ LET node == Head(Unsampled(nodes_in_sampling_order(fn_arg.network), fn_result))
       IN \E anchor \in 0..(AnchorScale - 1) :
            LET value == sample(node, fn_result, anchor)
            IN IF value = IndexError
               THEN Returned("raised", IndexError)
               ELSE Returned("generate_sample_loop", Put(fn_result, node.name, value))

\* return sample
GenerateSampleReturn ==
    /\ fn_pc = "generate_sample_loop"
    /\ Unsampled(nodes_in_sampling_order(fn_arg.network), fn_result) = <<>>
    /\ Returned("generated", fn_result)

\* the same call in another run of the program: a new process has its own
\* str hash seed (fn_result keeps what the run before returned)
NewProcess ==
    /\ fn_pc = "closed"
    /\ hash_seed' \in HashSeeds \ {hash_seed}
    /\ fn_pc' = "get_possible_values_again"
    /\ UNCHANGED <<search_vars, hg_vars, fg_vars, fn_arg, fn_result>>

NextFN ==
    \/ Pascalize
    \/ OrderHeaders
    \/ Unpack
    \/ Closure
    \/ WeightedSelection
    \/ RestrictedSelection
    \/ GenerateSampleCopy
    \/ GenerateSampleNode
    \/ GenerateSampleReturn
    \/ NewProcess

SpecFN == InitFN /\ [][NextFN]_vars

\* ------------------------------------------------------------ C1, C2
AllowedOf(node, vp) == SeqToSet(GetOr(vp, node.name, node.possibleValues))

\* A is a full assignment in which every node's value is allowed and is a key
\* of the node's conditional distribution given A
IsConsistent(nodes, vp, A) ==
    \A i \in 1..Len(nodes) :
        /\ Has(A, nodes[i].name)
        /\ Get(A, nodes[i].name) \in AllowedOf(nodes[i], vp)
        /\ Get(A, nodes[i].name) \in KeySet(get_probabilities_given_known_values(nodes[i], A))

\* all full assignments over the allowed values, by enumeration
AllAssignments(nodes, vp) ==
    LET values == UNION {AllowedOf(nodes[i], vp) : i \in 1..Len(nodes)}
    IN {[i \in 1..Len(nodes) |-> KV(nodes[i].name, f[i])] : f \in [1..Len(nodes) -> values]}

ExistsConsistent(nodes, vp) == \E A \in AllAssignments(nodes, vp) : IsConsistent(nodes, vp, A)

\* C1: an assignment returned by generate_consistent_sample_when_possible has
\* a value for every node, each constrained node's value is in its allowed
\* list, and every value is a key of its node's conditional distribution
C1_ReturnedSampleIsConsistent ==
    (s_pc = "done" /\ ~next_sample.is_none) =>
        LET nodes == nodes_in_sampling_order(network)
            A == next_sample.value
        IN /\ \A i \in 1..Len(nodes) : Has(A, nodes[i].name)
           /\ \A i \in 1..Len(nodes) :
                Has(value_possibilities, nodes[i].name) =>
                    Get(A, nodes[i].name) \in SeqToSet(Get(value_possibilities, nodes[i].name))
           /\ \A i \in 1..Len(nodes) :
                Get(A, nodes[i].name) \in
                    KeySet(get_probabilities_given_known_values(nodes[i], A))

\* a search that had to backtrack and still returned an assignment under a
\* constraint on every node
C1_Witness ==
    /\ s_pc = "done"
    /\ ~next_sample.is_none
    /\ network = "input"
    /\ value_possibilities = <<KV(BROWSER_HTTP, <<chrome100h1, firefox95h2>>),
                               KV(OPERATING_SYSTEM, <<windows, linux>>),
                               KV(DEVICE, <<mobile>>)>>

\* C2: the search returns None only when no consistent full assignment exists
\* (whatever the random draws, it finds one when one exists)
C2_NoneOnlyIfNoSolution ==
    (s_pc = "done" /\ next_sample.is_none) =>
        ~ExistsConsistent(nodes_in_sampling_order(network), value_possibilities)

\* a search that returned None although every allowed list is non-empty
C2_Witness ==
    /\ s_pc = "done"
    /\ next_sample.is_none
    /\ network = "input"
    /\ value_possibilities = <<KV(OPERATING_SYSTEM, <<windows>>), KV(DEVICE, <<mobile>>)>>


\* ------------------------------------------------- HeaderGenerator claims
NoHeadersError == "ValueError: No headers based on this input can be generated"

ReturnedHeaders == hg_pc = "done" /\ outcome.kind = "headers"

\* the options a call of generate asks for, constructor defaults included
Requested == Merge(self_options, call_options)

\* C3: when generate(user_agent=U) returns headers, their User-Agent (either
\* spelling) is one of the strings of U
C3_ReturnedUserAgentIsSupplied ==
    (ReturnedHeaders /\ user_agent # <<>>)
        => get_user_agent(outcome.headers) \in SeqToSet(user_agent)

\* the sampled browser, operating system and device are among the requested
C6_SampleConforms ==
    LET sampled == _prepare_http_browser_object(Get(generated_sample, BROWSER_HTTP))
    IN /\ \E i \in DOMAIN Requested.browsers :
            /\ Requested.browsers[i].name = sampled.name
            /\ \/ Falsy(Requested.browsers[i].min_version)
               \/ Requested.browsers[i].min_version[1] <= sampled.version[1]
            /\ \/ Falsy(Requested.browsers[i].max_version)
               \/ Requested.browsers[i].max_version[1] >= sampled.version[1]
       /\ Get(generated_sample, OPERATING_SYSTEM) \in SeqToSet(Requested.os)
       /\ Get(generated_sample, DEVICE) \in SeqToSet(Requested.devices)

\* C6: with strict=true a finished call of generate has either raised the
\* no-headers error or returned headers sampled within the requested
\* browsers, operating systems and devices
C6_StrictFailsOrConforms ==
    (hg_pc = "done" /\ Requested.strict)
        => \/ outcome.kind = NoHeadersError
           \/ outcome.kind = "headers" /\ C6_SampleConforms

\* C7: with strict=false a call of generate on a generator whose constructor
\* browsers match no available browser does not raise the no-headers error
C7_UnmatchedBrowsersAreRelaxed ==
    (/\ hg_pc = "done"
     /\ ~Requested.strict
     /\ _get_browser_http_options(self_options.browsers) = <<>>)
        => outcome.kind # NoHeadersError

\* C8: a nested call of _get_headers that is a relaxation retry never runs
\* with the very options of the attempt before it
C8_RelaxationRetryChangesOptions ==
    [][(hg_pc = "input_sample" /\ call_depth' = call_depth + 1 /\ retries' = retries)
          => options' # options]_vars

\* C10: when the input sample fails and the requested http_version is "1",
\* the next step of the generator is the retry with http_version "2"
C10_FailedHttp1SampleIsRetried ==
    [][(InputSampleFailed /\ HeaderOptions.http_version = S("1") /\ call_depth < MaxDepth)
          => /\ retries' = retries + 1
             /\ "http_version" \in DOMAIN options'
             /\ options'.http_version = S("2")]_vars


\* ------------------------------------------- FingerprintGenerator claims
ReturnedFingerprint == fg_pc = "done" /\ fg_outcome.kind = "fingerprint"

ReturnedWidth == Get(fg_outcome.fingerprint.screen, width)

ReturnedHeight == Get(fg_outcome.fingerprint.screen, height)

C5_UserAgentMatchesHeaders ==
    ReturnedFingerprint
        => fg_outcome.fingerprint.navigator.userAgent
               = get_user_agent(fg_outcome.fingerprint.headers)

\* a fingerprint returned by the second pass of the loop, the one that
\* dropped the screen restriction
C5_Witness ==
    /\ ReturnedFingerprint
    /\ attempts = 2
    /\ fg_screen.tag = "Screen"
    /\ filtered_values = <<>>

\* C9: generate samples the fingerprint network at most twice
C9_AtMostTwoAttempts == attempts <= 2

\* --------------------------------------- request-dependent headers: C11
\* headers holds value under name or under its pascalized spelling
HasEntry(headers, name, value) ==
    \E i \in 1..Len(headers) :
        /\ headers[i].k \in {name, pascalize(name)}
        /\ headers[i].v = value

\* C11: every entry of the caller's request_dependent_headers is in the
\* headers generate returns, with the caller's value, whatever its name
C11_RequestDependentHeadersAreReturned ==
    ReturnedHeaders =>
        \A i \in 1..Len(request_dependent_headers) :
            HasEntry(outcome.headers, request_dependent_headers[i].k,
                     request_dependent_headers[i].v)

\* ------------------------------------------------- omitted headers: C13
\* a key beginning with '*', the value '*MISSING_VALUE*', or Connection: close
ControlToken(k, v) ==
    \/ SubSeq(k, 1, 1) = <<"*">>
    \/ v = <<"*", "MISSING_VALUE*">>
    \/ lower(k) = Connection2 /\ v = <<"close">>

\* C13 as stated: returned headers hold no key beginning with '*', no value
\* '*MISSING_VALUE*' and no pair Connection: close, on every path
C13_NoControlTokensReturned ==
    ReturnedHeaders =>
        \A i \in 1..Len(outcome.headers) :
            ~ControlToken(outcome.headers[i].k, outcome.headers[i].v)

\* C13 amended: an entry of the returned headers with a key beginning with
\* '*', the value '*MISSING_VALUE*' or the pair Connection: close is an entry
\* the caller gave in request_dependent_headers
C13_OnlyCallerEntriesAreControlTokens ==
    ReturnedHeaders =>
        \A i \in 1..Len(outcome.headers) :
            ControlToken(outcome.headers[i].k, outcome.headers[i].v) =>
                \E j \in 1..Len(request_dependent_headers) :
                    /\ outcome.headers[i].k \in {request_dependent_headers[j].k,
                                                pascalize(request_dependent_headers[j].k)}
                    /\ outcome.headers[i].v = request_dependent_headers[j].v

\* headers returned from an HTTP/1 sample whose Connection is close, with
\* no request-dependent headers
C13_Witness ==
    /\ ReturnedHeaders
    /\ request_dependent_headers = <<>>
    /\ Has(generated_sample, Connection1)
    /\ Get(generated_sample, Connection1) = close
    /\ Has(generated_sample, BROWSER_HTTP)

C20_LanguagesAreTheLocales ==
    ReturnedFingerprint =>
        fg_outcome.fingerprint.navigator.languages = HeaderOptions.locales

\* ------------------------------------------------------ header order: C12
\* the header-order list of the browser the User-Agent of headers maps to
HeaderOrderOf(headers) == headers_order_get(get_browser(get_user_agent(headers)))

PositionIn(list, key) == CHOOSE i \in 1..Len(list) : list[i] = key

\* C12: the keys of the output of order_headers that are in the browser's
\* header-order list are the listed keys of the input, and they appear in
\* the relative order of the list
C12_ListedHeadersFollowTheList ==
    (fn_pc = "ordered" /\ fn_result.kind = "headers") =>
        LET list == HeaderOrderOf(fn_arg)
            out == Keys(fn_result.headers)
        IN /\ \A i, j \in 1..Len(out) :
                (i < j /\ out[i] \in SeqToSet(list) /\ out[j] \in SeqToSet(list))
                    => PositionIn(list, out[i]) < PositionIn(list, out[j])
           /\ KeySet(fn_result.headers) \cap SeqToSet(list) = KeySet(fn_arg) \cap SeqToSet(list)
           /\ \A i \in 1..Len(out) : fn_result.headers[i].v = Get(fn_arg, out[i])

\* headers given in an order that is not the list's come out reordered
C12_Witness ==
    /\ fn_pc = "ordered"
    /\ fn_arg = <<KV(SecFetchSite2, S("?1")), KV(AcceptLanguage2, S("de")),
                  KV(UserAgent2, UA_cw_a), KV(Connection1, keep_alive)>>
    /\ Keys(fn_result.headers) = <<Connection1, UserAgent2, AcceptLanguage2, SecFetchSite2>>

\* ------------------------------------------------------ determinism: C14
\* C14: the allowed values constraint closure returns, which the weighted
\* selection then walks in order, are the same, order included, in every
\* run of the program on the same network and constraints
C14_ClosureOrderDependsOnlyOnInputs ==
    [][(fn_pc = "get_possible_values_again" /\ fn_pc' = "closed")
          => fn_result' = fn_result]_vars

\* --------------------------------------------------------- pascalize: C16
\* C16: pascalize(pascalize(k)) = pascalize(k) for every header key k
C16_PascalizeIsIdempotent ==
    fn_pc = "pascalized" => pascalize(fn_result) = fn_result

\* ------------------------------------------------------------ unpack: C17
\* C17: after one unpack of a sample no value is the str '*MISSING_VALUE*'
\* and no value is a str beginning with '*STRINGIFIED*', and unpacking the
\* result again changes nothing
C17_UnpackIsIdempotent ==
    (fn_pc = "unpacked" /\ \A i \in 1..Len(fn_result) : fn_result[i].v.type # "JSONDecodeError") =>
        /\ \A i \in 1..Len(fn_result) :
              fn_result[i].v.type = "str" =>
                  /\ fn_result[i].v.v # <<"*", "MISSING_VALUE*">>
                  /\ SubSeq(fn_result[i].v.v, 1, 1) # <<"*STRINGIFIED*">>
        /\ unpack_sample(fn_result) = fn_result

\* a sample with a missing value and a stringified object, unpacked
C17_Witness ==
    /\ fn_pc = "unpacked"
    /\ fn_arg = <<KV(userAgent, PyStr(MISSING_VALUE_DATASET_TOKEN)), KV(screen, PyStr(scr800))>>
    /\ fn_result[1].v = PyNone
    /\ fn_result[2].v.type = "dict"

\* ------------------------------------------------ constraint closure: C18, C19
SameAllowedValues(a, b) ==
    /\ KeySet(a) = KeySet(b)
    /\ \A key \in KeySet(a) : SeqToSet(Get(a, key)) = SeqToSet(Get(b, key))

\* C18: when get_possible_values succeeds on C, it succeeds on its own
\* result and returns the same keys with the same value sets
C18_ClosureIsIdempotent ==
    (fn_pc = "closed" /\ ~fn_result.error) =>
        LET again == get_possible_values(fn_arg.network, fn_result.value)
        IN /\ ~again.error
           /\ SameAllowedValues(again.value, fn_result.value)

RECURSIVE LeafValues(_)
\* the values of all leaf distributions of a conditional probability tree
LeafValues(tree) ==
    KeySet(tree.dist)
    \cup UNION {LeafValues(tree.deeper[i].v) : i \in 1..Len(tree.deeper)}
    \cup UNION {LeafValues(tree.skip[i]) : i \in 1..Len(tree.skip)}

\* a constraint of the call asks only for values that no leaf distribution
\* of its node has
AsksForUnknownValues(call) ==
    \E i \in 1..Len(call.possible_values) :
        /\ call.possible_values[i].v # <<>>
        /\ SeqToSet(call.possible_values[i].v)
              \cap LeafValues(nodes_by_name(call.network, call.possible_values[i].k)
                                  .conditionalProbabilities) = {}

\* C19: get_possible_values with a constraint whose values occur in no leaf
\* distribution of the constrained node fails with the too-restrictive error
C19_UnknownValuesAreTooRestrictive ==
    (fn_pc = "closed" /\ AsksForUnknownValues(fn_arg)) => fn_result.error


\* ------------------------------------------------------ relaxation claims
\* the step in which a non-strict call gives up with the no-headers error
GivesUp ==
    /\ InputSampleFailed
    /\ ~HeaderOptions.strict
    /\ hg_pc' = "done"
    /\ outcome'.kind = NoHeadersError

\* C21: a non-strict call drops the first present constraint of locales,
\* devices, operating systems, browsers per retry, so when it gives up with
\* the no-headers error the operating-system constraint the caller supplied
\* has been dropped: it is no longer among the options of the failing attempt
C21_OperatingSystemIsDroppedBeforeGivingUp ==
    [][GivesUp => "os" \notin DOMAIN options]_vars

\* the headers order_headers was given, rearranged as the specification says:
\* the listed names in the order of the list, then the others as they came
Rearranged(headers) ==
    LET list == HeaderOrderOf(headers)
        listed == SelectSeq(list, LAMBDA key : Has(headers, key))
    IN [i \in 1..Len(listed) |-> KV(listed[i], Get(headers, listed[i]))]
       \o SelectSeq(headers, LAMBDA e : e.k \notin SeqToSet(list))

\* C22: order_headers only reorders: the headers it returns are the entries it
\* was given, the names of the browser's order list first and in the order of
\* the list, the other names after them in the order they had
C22_OrderHeadersOnlyReorders ==
    (fn_pc = "ordered" /\ fn_result.kind = "headers")
        => /\ SeqToSet(fn_result.headers) = SeqToSet(fn_arg)
           /\ fn_result.headers = Rearranged(fn_arg)

\* ------------------------------------------------------- closure claims
RECURSIVE DeeperPaths(_)
\* the paths of a conditional probability table that follow 'deeper' branches
\* only: the parent values along the path and the values of the distribution
\* the path ends in
DeeperPaths(tree) ==
    IF tree.deeper = <<>> THEN {[path |-> <<>>, leaves |-> KeySet(tree.dist)]}
    ELSE UNION {{[path |-> <<tree.deeper[b].k>> \o p.path, leaves |-> p.leaves] :
                    p \in DeeperPaths(tree.deeper[b].v)} : b \in DOMAIN tree.deeper}

\* the parent values at depth i on the paths that end in one of the values
QualifyingValues(node, values, i) ==
    {p.path[i] : p \in {q \in DeeperPaths(node.conditionalProbabilities) :
                           /\ q.leaves \cap SeqToSet(values) # {}
                           /\ i <= Len(q.path)}}

\* a call of get_possible_values with one constraint has returned a map
ClosedSingleConstraint ==
    /\ fn_pc = "closed"
    /\ Len(fn_arg.possible_values) = 1
    /\ ~fn_result.error

\* C23: for a single constraint (key, values) the closure gives the parent at
\* depth i of key exactly the parent values that lie at depth i on some path
\* through the 'deeper' branches of key's table ending in a distribution that
\* holds one of the values, the union over all such paths (a parent without
\* such a path gets no value)
C23_ClosureIsTheUnionOverQualifyingPaths ==
    ClosedSingleConstraint =>
        LET key == fn_arg.possible_values[1].k
            values == fn_arg.possible_values[1].v
            node == nodes_by_name(fn_arg.network, key)
        IN \A i \in DOMAIN node.parentNames :
              SeqToSet(GetOr(fn_result.value, node.parentNames[i], <<>>))
                  = QualifyingValues(node, values, i)

\* a closure over two qualifying paths that differ at two depths
C23_Witness ==
    /\ ClosedSingleConstraint
    /\ fn_arg.possible_values[1].k = UserAgent2
    /\ SeqToSet(GetOr(fn_result.value, BROWSER_HTTP, <<>>)) = {chrome100h2, firefox95h2}
    /\ SeqToSet(GetOr(fn_result.value, BROWSER, <<>>)) = {chrome100, firefox95}
    /\ SeqToSet(GetOr(fn_result.value, OPERATING_SYSTEM, <<>>)) = {linux}

\* the sets one constraint gives: its own values for its key and, for each
\* parent of the key that lies on a qualifying path, the values at its depth
SetsOfConstraint(nw, constraint) ==
    LET node == nodes_by_name(nw, constraint.k)
    IN {<<constraint.k, SeqToSet(constraint.v)>>}
       \cup {<<node.parentNames[i], QualifyingValues(node, constraint.v, i)>> :
                i \in {j \in DOMAIN node.parentNames :
                          QualifyingValues(node, constraint.v, j) # {}}}

\* the sets the constraints of a call give for a name
SetsFor(call, name) ==
    {pair[2] : pair \in {q \in UNION {SetsOfConstraint(call.network, call.possible_values[c]) :
                                         c \in DOMAIN call.possible_values} : q[1] = name}}

ConstrainedNames(call) ==
    {pair[1] : pair \in UNION {SetsOfConstraint(call.network, call.possible_values[c]) :
                                  c \in DOMAIN call.possible_values}}

Intersection(sets) == {x \in UNION sets : \A s \in sets : x \in s}

\* C24: get_possible_values gives every name the intersection of the sets the
\* constraints give for it, and raises the too-restrictive error exactly when
\* a constraint has an empty value list or one of these intersections is empty
C24_ClosureMergesByIntersection ==
    fn_pc = "closed" =>
        /\ fn_result.error <=>
              \/ \E c \in DOMAIN fn_arg.possible_values : fn_arg.possible_values[c].v = <<>>
              \/ \E name \in ConstrainedNames(fn_arg) : Intersection(SetsFor(fn_arg, name)) = {}
        /\ ~fn_result.error =>
              /\ KeySet(fn_result.value) = ConstrainedNames(fn_arg)
              /\ \A name \in ConstrainedNames(fn_arg) :
                    SeqToSet(Get(fn_result.value, name)) = Intersection(SetsFor(fn_arg, name))

\* a call whose constraints give different sets for one name, and the
\* intersection is not empty
C24_Witness ==
    /\ fn_pc = "closed"
    /\ ~fn_result.error
    /\ Len(fn_arg.possible_values) >= 2
    /\ \E name \in ConstrainedNames(fn_arg) : \E s \in SetsFor(fn_arg, name) :
          Intersection(SetsFor(fn_arg, name)) # s

\* ------------------------------------------------- backtracking claims
\* the names of the first d nodes of nodes_in_sampling_order
FirstNodes(d) == [i \in 1..d |-> nodes_in_sampling_order(network)[i].name]

Searching == s_pc \in {"loop", "returned_none"}

\* at the head of the loop of the frame at depth d the assignment holds the
\* first d nodes; when the call one level deeper has just returned None it
\* still holds the value of the frame's own node, which the frame removes next
AssignmentFollowsDepth ==
    /\ s_pc = "loop" => Keys(sample_so_far) = FirstNodes(Top.depth)
    /\ (s_pc = "returned_none" /\ frames # <<>>)
          => Keys(sample_so_far) = FirstNodes(Top.depth + 1)
    /\ (s_pc = "returned_none" /\ frames = <<>>) => sample_so_far = <<>>
    /\ (s_pc = "done" /\ next_sample.is_none) => sample_so_far = <<>>

\* a step of the search changes no value that stays in the assignment
NoValueOverwritten ==
    \A i \in DOMAIN sample_so_far :
        Has(sample_so_far', sample_so_far[i].k)
            => Get(sample_so_far', sample_so_far[i].k) = sample_so_far[i].v

\* the frame that returns None returns with the assignment it was entered
\* with: it holds the d nodes above the frame, and no step taken at depth d or
\* deeper touches their entries
EntriesAboveFrameKept ==
    s_pc = "loop" =>
        /\ Len(sample_so_far') >= Top.depth
        /\ SubSeq(sample_so_far', 1, Top.depth) = SubSeq(sample_so_far, 1, Top.depth)

\* C25: during the backtracking search the keys of the assignment are the
\* first d nodes of the sampling order, d the depth of the running frame; a
\* value is never overwritten while it is present; a frame that returns None
\* leaves the assignment as it was when the frame was entered, and a failed
\* top-level call leaves it empty
C25_AssignmentFollowsTheFrames ==
    /\ []AssignmentFollowsDepth
    /\ [][Searching => (NoValueOverwritten /\ EntriesAboveFrameKept)]_vars

\* the outermost frame has banned a value and runs its loop again one level
\* deeper with another value
C25_Witness ==
    /\ s_pc = "loop"
    /\ Len(frames) = 2
    /\ frames[1].banned_values # <<>>
    /\ Len(sample_so_far) = 1
    /\ sample_so_far[1].v \notin SeqToSet(frames[1].banned_values)

\* the node of the j-th active frame and the values the frame may try
FrameNode(j) == nodes_in_sampling_order(network)[frames[j].depth + 1]

FrameAllowed(j) == GetOr(value_possibilities, FrameNode(j).name, FrameNode(j).possibleValues)

\* a frame that has called the next depth holds a value that is being tried
HasDescended(j) == j < Len(frames) \/ s_pc = "returned_none"

\* the values a frame has tried so far: the banned ones, then the one in use
Tried(j) ==
    IF HasDescended(j)
    THEN Append(frames[j].banned_values, Get(sample_so_far, FrameNode(j).name))
    ELSE frames[j].banned_values

\* the frames that have a node: the frame at the depth of the last node's
\* child returns the assignment at once
LoopingFrames == {j \in DOMAIN frames : frames[j].depth < Len(nodes_in_sampling_order(network))}

NoValueTriedTwice ==
    \A j \in LoopingFrames :
        /\ Cardinality(SeqToSet(Tried(j))) = Len(Tried(j))
        /\ SeqToSet(Tried(j)) \subseteq SeqToSet(FrameAllowed(j))
        /\ Len(Tried(j)) <= Len(FrameAllowed(j))

\* a step adds a banned value to the innermost frame only, and a new frame
\* starts with no banned value
BannedIsLocal ==
    /\ \A j \in DOMAIN frames :
          (j \in DOMAIN frames' /\ j < Len(frames)) => frames'[j] = frames[j]
    /\ Len(frames') > Len(frames) => frames'[Len(frames')].banned_values = <<>>

\* C26: the backtracking search terminates: a frame tries no value twice (a
\* failed value is banned for the rest of the frame, and the banned list
\* belongs to the frame), so it makes at most as many attempts as it has
\* allowed values, and every search that runs comes to its return
C26_SearchTerminates ==
    /\ [](Searching => NoValueTriedTwice)
    /\ [][Searching => BannedIsLocal]_vars
    /\ (s_pc = "loop" ~> s_pc = "done")

\* a frame has tried every one of its two or more allowed values and failed
C26_Witness ==
    /\ s_pc = "loop"
    /\ LoopingFrames = DOMAIN frames
    /\ Len(frames) >= 1
    /\ Len(Top.banned_values) >= 2
    /\ Len(Top.banned_values) = Len(FrameAllowed(Len(frames)))

\* ----------------------------------------------------- sampling claims
RECURSIVE CumulativeSum(_, _, _)
\* the sum of the raw probabilities of the first n values of order
CumulativeSum(order, probabilities, n) ==
    IF n = 0 THEN 0
    ELSE CumulativeSum(order, probabilities, n - 1) + Get(probabilities, order[n])

\* the positions of order whose cumulative sum is greater than the anchor
Exceeding(call) ==
    {n \in DOMAIN call.possible_values :
        CumulativeSum(call.possible_values, call.probabilities, n) > call.anchor}

\* C27: weighted selection over a non-empty sequence of values returns the
\* first value whose cumulative raw probability is strictly greater than the
\* anchor, the first value of the sequence when no cumulative sum is greater,
\* and in both cases a member of the sequence
C27_SelectionFollowsCumulativeSums ==
    fn_pc = "selected" =>
        /\ fn_result \in SeqToSet(fn_arg.possible_values)
        /\ Exceeding(fn_arg) # {} =>
              fn_result = fn_arg.possible_values[CHOOSE n \in Exceeding(fn_arg) :
                                                    \A m \in Exceeding(fn_arg) : n <= m]
        /\ Exceeding(fn_arg) = {} => fn_result = fn_arg.possible_values[1]

\* no cumulative sum over two or more values is greater than the anchor
C27_Witness ==
    /\ fn_pc = "selected"
    /\ Len(fn_arg.possible_values) >= 2
    /\ Exceeding(fn_arg) = {}
    /\ fn_result = fn_arg.possible_values[1]

\* the allowed values of a call that are keys of the node's conditional
\* distribution given the parent values and are not banned, in the order of
\* the allowed values
Candidates(call) ==
    LET distribution == get_probabilities_given_known_values(call.node, call.parent_values)
    IN SelectSeq(call.value_possibilities,
                 LAMBDA v : Has(distribution, v) /\ v \notin SeqToSet(call.banned_values))

\* the weighted selection over the candidates in their order
SelectedCandidate(call) ==
    LET selection == SelectionCall(Candidates(call),
                         get_probabilities_given_known_values(call.node, call.parent_values),
                         call.anchor)
    IN IF Exceeding(selection) = {} THEN Candidates(call)[1]
       ELSE Candidates(call)[CHOOSE n \in Exceeding(selection) :
                                \A m \in Exceeding(selection) : n <= m]

\* C28: sample_according_to_restrictions returns None exactly when no allowed
\* value is a key of the node's conditional distribution and not banned;
\* otherwise it returns an allowed value that is a key of the distribution
\* and not banned, selected over these candidates in the order of the allowed
\* values
C28_RestrictedSamplingDrawsACandidate ==
    fn_pc = "sampled" =>
        /\ fn_result = None <=> Candidates(fn_arg) = <<>>
        /\ Candidates(fn_arg) # <<>> =>
              /\ fn_result \in SeqToSet(Candidates(fn_arg))
              /\ fn_result = SelectedCandidate(fn_arg)

\* an allowed value is banned, another is unknown to the distribution, and of
\* the two candidates the one that is first among the allowed values but
\* second in the distribution is returned
C28_Witness ==
    /\ fn_pc = "sampled"
    /\ fn_arg.value_possibilities = <<macos, linux, windows>>
    /\ fn_arg.banned_values = <<>>
    /\ fn_arg.parent_values = <<KV(BROWSER_HTTP, chrome100h2)>>
    /\ fn_result = linux

\* the assignment a call of generate_sample returned is complete, holds the
\* pre-filled entries, and gives every other node a key of its conditional
\* distribution given the assignment
IsGeneratedSample(call, assignment) ==
    LET nodes == nodes_in_sampling_order(call.network)
    IN /\ \A n \in DOMAIN nodes : Has(assignment, nodes[n].name)
       /\ \A i \in DOMAIN call.input_values :
             /\ Has(assignment, call.input_values[i].k)
             /\ Get(assignment, call.input_values[i].k) = call.input_values[i].v
       /\ \A n \in DOMAIN nodes :
             ~Has(call.input_values, nodes[n].name)
                 => Has(get_probabilities_given_known_values(nodes[n], assignment),
                        Get(assignment, nodes[n].name))

\* C29: every call of generate_sample returns an assignment, also when the
\* descent of a node ends in an empty distribution; the assignment has a
\* value for every node, keeps the pre-filled entries, and gives every other
\* node a key of its conditional distribution
C29_GenerateSampleReturnsACompleteAssignment ==
    /\ fn_pc # "raised"
    /\ fn_pc = "generated" => IsGeneratedSample(fn_arg, fn_result)

\* ------------------------------------------------- normalisation claims
\* the http version a candidate *BROWSER_HTTP string ends in
HttpVersionOf(http_browser_string) == split(http_browser_string, "|")[2]

\* C30: a browser record without an http_version of its own inherits the
\* http_version of the call: while a call whose browsers are given by name,
\* or by name and version band, runs with http_version 1, every candidate
\* *BROWSER_HTTP string of its input sample ends in |1
C30_BrowsersInheritHttpVersion ==
    (hg_pc = "input_sample" /\ HeaderOptions.http_version = S("1"))
        => \A i \in DOMAIN GetOr(value_possibilities, BROWSER_HTTP, <<>>) :
              HttpVersionOf(Get(value_possibilities, BROWSER_HTTP)[i]) = S("1")

====
